---- MODULE Spec2Model ----
(***************************************************************************)
(* Task Execution Core of Bindu: the resilience layer (per-operation       *)
(* circuit breaker wrapped around the Tenacity retry loop) and the task    *)
(* lifecycle (run, stream, pause, resume, cancel); and its web client      *)
(* (bindu/ui/static/js): the auth token, createTask, the payment flow of   *)
(* the chat, BinduApp's polling of a task and TaskPoller.                  *)
(*                                                                         *)
(* Time is the monotonic clock in whole ticks.                             *)
(***************************************************************************)
EXTENDS Integers, Sequences, FiniteSets, Bags, TLC

VARIABLES
    settings,   \* app_settings.circuit_breaker (CircuitBreakerSettings)
    registry,   \* circuit_breaker._registry: operation key -> CircuitBreaker
    now,        \* the monotonic clock
    caller,     \* one record per concurrent caller of a retry decorator
    storage,    \* the Storage contract: task id -> task record
    inflight,   \* per task: the worker invocations that have started and not yet ended
    resuming,   \* per task: a resume that has written resumed and not yet continued
    response,   \* the answer to the last request
    collab,     \* calls made to the signing, payment and stream collaborators
    handler,    \* the external computation: what it returns for each input
    delivered,  \* the events the client of a stream that ended in the last step has got
    store,      \* the web client: state/store.js, the state of the UI
    authStorage, \* the web client: utils/storage.js, the auth token kept across page loads
    requests,   \* the web client: the requests it has sent to the server, in order
    chatArea,   \* the web client: components.chatArea, the messages added to the chat
    flow,       \* the web client: the call of sendMessage / handleMessageSend that is running
    app,        \* the web client: BinduApp: pollingTaskId, pollingInterval and its timers
    poller,     \* the web client: TaskPoller: activePolls and its polling loops
    returned    \* the web client: what the last call of a function returned or threw

cbVars == <<settings, registry, now, caller>>

taskVars == <<storage, inflight, resuming, response, collab, handler, delivered>>

serverVars == <<cbVars, taskVars>>

chatVars == <<chatArea, flow>>

pollVars == <<app, poller>>

uiVars == <<store, authStorage, returned, requests, chatVars, pollVars>>

vars ==
    <<settings, registry, now, caller, storage, inflight, resuming, response,
      collab, handler, delivered, store, authStorage, returned, requests,
      chatArea, flow, app, poller>>

----------------------------------------------------------------------------
(* Bounds *)

\* The clock stops here.
MaxTime == 4
\* failure_threshold, recovery_timeout and success_threshold range over
\* 1..Max* (they are settings, read from the environment).
MaxFailureThreshold == 2
MaxRecoveryTimeout == 2
MaxSuccessThreshold == 2

\* Worker invocations of one task that may be in flight at once.
MaxInFlight == 2
\* Messages in one task's history.
MaxHistory == 5
\* Chunks the computation yields in one stream.
MaxChunks == 2

\* execute_with_retry(max_attempts=3)
MaxAttempts == 3

\* Characters in a token of the web client.
MaxTokenLen == 2
\* Requests the web client sends to the server.
MaxRequests == 3
\* handlePaymentFlow: maxAttempts, 60 in the code.
PaymentMaxAttempts == 3
\* BinduApp.pollTaskStatus and TaskPoller: maxAttempts, 300 in the code.
PollMaxAttempts == 2
\* Polls started.
MaxPolls == 2
\* Messages in the chat.
MaxChat == 3

Callers == {"c1", "c2"}

\* The decorated operations that are called: <<decorator type, func.__name__>>.
Operations == {<<"storage", "save_task">>, <<"api", "call_agent">>}

----------------------------------------------------------------------------
(* CircuitBreakerSettings *)

CircuitBreakerSettings ==
    [enabled : BOOLEAN,
     failure_threshold : 1..MaxFailureThreshold,
     recovery_timeout : 1..MaxRecoveryTimeout,
     success_threshold : 1..MaxSuccessThreshold]

(* CircuitState *)
CircuitState == {"CLOSED", "OPEN", "HALF_OPEN"}

(* CircuitBreaker.__init__ *)
NewCircuitBreaker ==
    [state |-> "CLOSED", failure_count |-> 0, success_count |-> 0, opened_at |-> 0]

\* _transition that leaves failure_count as it is on entering CLOSED.
_transition_keeping_failures(b, new_state, t) ==
    CASE new_state = "OPEN" ->
            [b EXCEPT !.state = "OPEN", !.opened_at = t, !.success_count = 0]
      [] OTHER ->
            [b EXCEPT !.state = new_state, !.success_count = 0]

\* _transition that sets both counters to zero on entering any state.
_transition_resetting_counters(b, new_state, t) ==
    CASE new_state = "OPEN" ->
            [b EXCEPT !.state = "OPEN", !.opened_at = t, !.failure_count = 0,
                      !.success_count = 0]
      [] OTHER ->
            [b EXCEPT !.state = new_state, !.failure_count = 0, !.success_count = 0]

(* CircuitBreaker._transition(new_state), at clock t *)
_transition(b, new_state, t) ==
    CASE new_state = "CLOSED" ->
            [b EXCEPT !.state = "CLOSED", !.failure_count = 0, !.success_count = 0]
      [] new_state = "OPEN" ->
            [b EXCEPT !.state = "OPEN", !.opened_at = t, !.success_count = 0]
      [] OTHER ->
            [b EXCEPT !.state = new_state, !.success_count = 0]

(* CircuitBreaker._is_call_allowed *)
_is_call_allowed(b) == b.state \in {"CLOSED", "HALF_OPEN"}

(* CircuitBreaker._maybe_transition_to_half_open *)
_maybe_transition_to_half_open(b, t) ==
    IF b.state = "OPEN" /\ t - b.opened_at >= settings.recovery_timeout
    THEN _transition(b, "HALF_OPEN", t)
    ELSE b

\* _seconds_until_half_open with the subtraction the wrong way round.
_seconds_until_half_open_reversed(b, t) ==
    LET remaining == (t - b.opened_at) - settings.recovery_timeout
    IN  IF remaining > 0 THEN remaining ELSE 0

(* CircuitBreaker._seconds_until_half_open *)
_seconds_until_half_open(b, t) ==
    LET remaining == settings.recovery_timeout - (t - b.opened_at)
    IN  IF remaining > 0 THEN remaining ELSE 0

\* _record_failure that opens only above the threshold.
_record_failure_above_threshold(b, t) ==
    LET counted == [b EXCEPT !.failure_count = b.failure_count + 1]
    IN  CASE b.state = "HALF_OPEN" -> _transition(counted, "OPEN", t)
          [] b.state = "CLOSED" /\ counted.failure_count > settings.failure_threshold ->
                _transition(counted, "OPEN", t)
          [] OTHER -> counted

\* _record_failure that only counts a failure of a HALF_OPEN probe.
_record_failure_without_reopen(b, t) ==
    LET counted == [b EXCEPT !.failure_count = b.failure_count + 1]
    IN  CASE b.state = "CLOSED" /\ counted.failure_count >= settings.failure_threshold ->
                _transition(counted, "OPEN", t)
          [] OTHER -> counted

\* _record_failure that trips whenever the count is at the threshold or above,
\* so also for a failure recorded when the breaker is already OPEN.
_record_failure_reopening(b, t) ==
    LET counted == [b EXCEPT !.failure_count = b.failure_count + 1]
    IN  CASE b.state = "HALF_OPEN" -> _transition(counted, "OPEN", t)
          [] counted.failure_count >= settings.failure_threshold ->
                _transition(counted, "OPEN", t)
          [] OTHER -> counted

(* CircuitBreaker._record_failure *)
_record_failure(b, t) ==
    LET counted == [b EXCEPT !.failure_count = b.failure_count + 1]
    IN  CASE b.state = "HALF_OPEN" -> _transition(counted, "OPEN", t)
          [] b.state = "CLOSED" /\ counted.failure_count >= settings.failure_threshold ->
                _transition(counted, "OPEN", t)
          [] OTHER -> counted

(* CircuitBreaker._record_success *)
_record_success(b, t) ==
    CASE b.state = "HALF_OPEN" ->
            LET counted == [b EXCEPT !.success_count = b.success_count + 1]
            IN  IF counted.success_count >= settings.success_threshold
                THEN _transition(counted, "CLOSED", t)
                ELSE counted
      [] b.state = "CLOSED" -> [b EXCEPT !.failure_count = 0]
      [] OTHER -> b

\* The key left as the literal of the pattern, the same for every operation.
OperationKey_literal(op) == <<"type", "func_name">>

(* The CB operation key of a retry decorator: "{type}:{func.__name__}" *)
OperationKey(op) == op

(* get_circuit_breaker(name): create-or-get in the registry *)
get_circuit_breaker(reg, name) ==
    IF name \in DOMAIN reg
    THEN reg
    ELSE [k \in DOMAIN reg \cup {name} |-> IF k = name THEN NewCircuitBreaker ELSE reg[k]]

----------------------------------------------------------------------------
(* The Tenacity retry loop as a function of the outcomes of func *)

RECURSIVE RetryLoop(_, _)
\* AsyncRetrying: the first success is returned; after max_attempts failures the
\* error is raised.
RetryLoop(outcomes, attempt) ==
    IF outcomes = <<>> THEN "pending"
    ELSE IF Head(outcomes) = "ok" THEN "ok"
    ELSE IF attempt >= MaxAttempts THEN "error"
    ELSE RetryLoop(Tail(outcomes), attempt + 1)

\* A caller between calls.  op is the decorated operation of its last call, seen
\* the outcomes of func in that call, admitted_in the breaker's state when the
\* call was let through.
IdleCaller ==
    [pc |-> "idle", op |-> <<"storage", "save_task">>, seen |-> <<>>,
     result |-> "none", retry_after |-> 0, admitted_in |-> "none"]

----------------------------------------------------------------------------
(* Task record and state machine *)

\* Every action touches the record of one task only; one task id is modelled.
Tasks == {"t1"}

TaskStates ==
    {"submitted", "working", "input-required", "completed", "failed", "canceled",
     "rejected", "suspended", "resumed"}

TerminalStates == {"completed", "failed", "canceled", "rejected"}

\* pausable_states with resumed added.
PausableStates_with_resumed == {"submitted", "working", "input-required", "resumed"}

\* pausable_states with suspended added: a suspended task is paused again.
PausableStates_with_suspended == {"submitted", "working", "input-required", "suspended"}

(* AgentSettings.pausable_states *)
PausableStates == {"submitted", "working", "input-required"}

\* non_terminal_states as the cancel edges of the state diagram: submitted and
\* working only.
NonTerminalStates_in_diagram == {"submitted", "working"}

\* non_terminal_states holding every state: cancel is never refused.
NonTerminalStates_all == TaskStates

(* AgentSettings.non_terminal_states *)
NonTerminalStates == TaskStates \ TerminalStates

\* States from which a run or stream request starts the task: a fresh task, or
\* one that got the input it was waiting for.  (resumed -> working is the
\* continuation of the resume itself, continue_task.)
StartableStates == {"submitted", "input-required"}

\* The texts a client sends: the input of a new task, and the input a task was
\* waiting for.
Inputs == {"2+2"}

MoreInputs == {"four"}

\* The texts an invocation can be started on: the last message of a history is
\* a client's input or the agent's question.
Texts == Inputs \cup MoreInputs \cup {"which?"}

\* What the external computation returns for one input, as the response
\* detector classifies it: a final text, a question for more input, or a
\* raised error.
Kinds == {"final", "input-required", "error"}

\* The final text of a computation tells which input it was computed from.
final_text(input) ==
    IF input = "2+2" THEN "4" ELSE IF input = "four" THEN "IV" ELSE "what?"

result_of(kind, input) ==
    [kind |-> kind,
     text |-> IF kind = "final" THEN final_text(input)
              ELSE IF kind = "input-required" THEN "which?" ELSE "boom"]

Results == {result_of(kind, input) : kind \in Kinds, input \in Texts}

\* The computations: for each text, the result it is classified to.
Handlers ==
    {h \in [Texts -> Results] : \A text \in Texts : h[text] = result_of(h[text].kind, text)}

Message(role, text) == [role |-> role, text |-> text]

\* run_params: the execution input is the last message of the history.
LastMessage(history) == history[Len(history)].text

NoCheckpoint == [paused_from_state |-> "none", message_history |-> <<>>, artifacts |-> <<>>]

\* The requests that lead to a new invocation (run, stream, pause) are taken
\* while the invocations in flight stay within MaxInFlight and the history,
\* with the one message each invocation may add, within MaxHistory.
HasRoom(history, invocations) ==
    /\ BagCardinality(invocations) < MaxInFlight
    /\ Len(history) + BagCardinality(invocations) < MaxHistory

(* Storage.submit_task: the record of a new task *)
NewTask(input) ==
    [state |-> "submitted", history |-> <<Message("user", input)>>, artifacts |-> <<>>,
     checkpoint |-> NoCheckpoint, error |-> "none"]

\* save_checkpoint that builds the checkpoint after the transition.
save_checkpoint_after_transition(task) ==
    [task EXCEPT !.state = "suspended",
                 !.checkpoint = [paused_from_state |-> "suspended",
                                 message_history |-> task.history,
                                 artifacts |-> task.artifacts]]

(* Storage.save_checkpoint: metadata.checkpoint and state -> suspended, one write *)
save_checkpoint(task) ==
    [task EXCEPT !.state = "suspended",
                 !.checkpoint = [paused_from_state |-> task.state,
                                 message_history |-> task.history,
                                 artifacts |-> task.artifacts]]

(* Storage.clear_checkpoint *)
clear_checkpoint(task) == [task EXCEPT !.checkpoint = NoCheckpoint]

(* Storage.update_task(state=...) *)
update_task(task, state) == [task EXCEPT !.state = state]

\* The calls made to a collaborator for one task are counted as none, one, or
\* more than one.
counted(calls) == IF calls < 2 THEN calls + 1 ELSE calls

(* The signing collaborator: sign(content) -> signed_artifact *)
sign(content) == [text |-> content, signature |-> <<"did", content>>]

(* TaskStatusUpdateEvent *)
StatusEvent(state, final) == [kind |-> "status-update", state |-> state, final |-> final]

\* The text part of an artifact event: text is the output it belongs to, piece
\* tells which chunk of it the part holds (0: all of it), signature is empty
\* for unsigned content.
Part(text, piece, signature) == [text |-> text, piece |-> piece, signature |-> signature]

(* TaskArtifactUpdateEvent *)
ArtifactEvent(id, part, last_chunk) ==
    [kind |-> "artifact-update", artifact_id |-> id, part |-> part, append |-> TRUE,
     last_chunk |-> last_chunk]

\* artifact_id that is generated anew for every event.
artifact_id_per_event(input, n) == <<"artifact", input, n>>

(* The artifact_id of the n-th artifact event of a stream: generated once per *)
(* stream, before the first chunk, and shared by all its artifact events.    *)
artifact_id(input, n) == <<"artifact", input>>

\* The n-th chunk the computation yields on its way to the output text.
chunk_of(text, n) == Part(text, n, <<>>)

\* A worker invocation in flight: run or stream, and its run_params.  The
\* invocations of one task in flight are a bag of these.
\* phase: computing, then settling once the payment settlement is invoked.
\* events: what a stream has sent to its client so far, the working status
\* event first.
Invocation(mode, input) ==
    [mode |-> mode, input |-> input, phase |-> "computing",
     events |-> IF mode = "stream" THEN <<StatusEvent("working", FALSE)>> ELSE <<>>]

\* The last_chunk marker with the final signed content as its text.
last_chunk_event_signed(inv, text) ==
    ArtifactEvent(artifact_id(inv.input, Len(inv.events)),
                  Part(text, 0, sign(text).signature), TRUE)

(* The marker a generator path emits after exhaustion: last_chunk=true and  *)
(* empty text; text is the full response collected from the chunks.         *)
last_chunk_event(inv, text) ==
    ArtifactEvent(artifact_id(inv.input, Len(inv.events)), Part("", 0, <<>>), TRUE)

\* The events a client has got when its invocation ends: a run has none.
emitted(inv, events) == IF inv.mode = "stream" THEN events ELSE <<>>

\* What a call through the resilience layer comes back with: the result of
\* func, the error after the last retry, or CircuitBreakerOpenError.
CallResults == {"ok", "error", "CircuitOpen"}

\* classify that takes the text of a raised error for a final text.
classify_error_as_final(call, result) ==
    IF call # "ok" THEN "error"
    ELSE IF result.kind = "error" THEN "final" ELSE result.kind

\* classify that looks at the computation's result only, not at what the
\* resilience layer returned.
classify_ignoring_call(call, result) == result.kind

(* The response detector: the outcome of an invocation whose call came back *)
classify(call, result) == IF call # "ok" THEN "error" ELSE result.kind

(* The error surfaced to the caller and captured in metadata *)
error_of(call) == IF call = "CircuitOpen" THEN "CircuitOpen" ELSE "ExecutionFailed"

(* The state persisted after payment settlement came back *)
state_after_settlement(settlement) == "completed"

\* The answer to the request handled in a step; NoResponse after a step that
\* answers nobody.
Respond(op, t, result) == [op |-> op, task |-> t, result |-> result]

NoResponse == Respond("none", "t1", "ok")

(* The web client (bindu/ui/static/js) *)

\* A token is a string, modelled as the sequence of its characters.  The
\* characters are one ASCII letter, the ASCII space, one non-ASCII letter
\* (U+00E9) and one non-ASCII white space (U+00A0, which trim() removes).
Chars == {"a", "sp", "eacute", "nbsp"}

WhiteSpace == {"sp", "nbsp"}

Ascii == {"a", "sp"}

\* null, where a token is expected.
Null == <<"null">>

Strings == UNION {[1..n -> Chars] : n \in 0..MaxTokenLen}

\* What setAuthToken is called with, and what the browser's storage can hold.
Tokens == Strings \cup {Null}

\* JavaScript truthiness of a token: neither null nor the empty string.
Truthy(token) == token # Null /\ token # <<>>

(* String.prototype.trim *)
RECURSIVE trim(_)
trim(s) ==
    IF s = <<>> THEN s
    ELSE IF Head(s) \in WhiteSpace THEN trim(Tail(s))
    ELSE IF s[Len(s)] \in WhiteSpace THEN trim(SubSeq(s, 1, Len(s) - 1))
    ELSE s

(* /^[\x00-\x7F]*$/.test(s) *)
IsAscii(s) == \A i \in 1..Len(s) : s[i] \in Ascii

\* No task, where the store holds the state of the current task.
NoTaskState == [status |-> "null"]

(* state/store.js: the state of a page that has just been loaded *)
NewStore ==
    [authToken |-> Null, paymentToken |-> Null, contextId |-> "null",
     currentTaskId |-> "null", currentTaskState |-> NoTaskState,
     error |-> "null", indicator |-> "null"]

\* What a call gave back: nothing yet, a value, or an exception.
NotCalled == [kind |-> "none", value |-> Null]

Returns(value) == [kind |-> "return", value |-> value]

Throws(message) == [kind |-> "throw", value |-> <<message>>]

\* No call of sendMessage or handleMessageSend is running.  Of a running call:
\* the function, the request it is waiting for (pc), its text, the status
\* polls its payment flow has made and what the last one reported, and the UI
\* flag it has emitted.
IdleFlow ==
    [pc |-> "idle", fn |-> "none", text |-> "", attempts |-> 0, status |-> "none",
     emitted |-> "none"]

(* BinduApp constructor; timers: the intervals set so far, by their id; *)
(* canceling: the task of the cancel request that is on its way         *)
NewApp == [pollingTaskId |-> "null", pollingInterval |-> 0, timers |-> <<>>, canceling |-> "null"]

(* TaskPoller constructor; loops: the polls started so far *)
NewPoller == [activePolls |-> {}, loops |-> <<>>]

\* The specifications of the server side: no page is loaded, none of the
\* client's objects exists.
InitNoClient ==
    /\ store = <<>>
    /\ authStorage = <<>>
    /\ returned = <<>>
    /\ requests = <<>>
    /\ chatArea = <<>>
    /\ flow = <<>>
    /\ app = <<>>
    /\ poller = <<>>

\* The page is loaded: the client's objects as they are constructed.
InitClient ==
    /\ store = NewStore
    /\ authStorage = Null
    /\ returned = NotCalled
    /\ requests = <<>>
    /\ chatArea = <<>>
    /\ flow = IdleFlow
    /\ app = NewApp
    /\ poller = NewPoller

InitTasks ==
    /\ storage = <<>>
    /\ inflight = [t \in Tasks |-> EmptyBag]
    /\ resuming = [t \in Tasks |-> FALSE]
    /\ response = NoResponse
    /\ collab = [sign |-> [t \in Tasks |-> 0], settle |-> [t \in Tasks |-> 0],
                 chunks |-> [t \in Tasks |-> 0]]
    /\ delivered = <<>>

(* submit_task(context_id, input): a new task, in submitted *)
submit_task(t, input) ==
    /\ t \notin DOMAIN storage
    /\ storage' = [k \in DOMAIN storage \cup {t} |->
                        IF k = t THEN NewTask(input) ELSE storage[k]]
    /\ response' = Respond("submit", t, "ok")
    /\ delivered' = <<>>
    /\ UNCHANGED <<inflight, resuming, collab, handler, cbVars, uiVars>>

(* run / stream, steps (a) and (b): load, validate, persist working.  A task *)
(* waiting for input gets the new message appended to its history.          *)
run_task(t, op, input) ==
    /\ IF t \notin DOMAIN storage
       THEN /\ response' = Respond(op, t, "TaskNotFound")
            /\ UNCHANGED <<storage, inflight>>
       ELSE IF storage[t].state \notin StartableStates
       THEN /\ response' = Respond(op, t, "TaskNotStartable")
            /\ UNCHANGED <<storage, inflight>>
       ELSE LET history == IF storage[t].state = "input-required"
                           THEN Append(storage[t].history, Message("user", input))
                           ELSE storage[t].history
            IN  /\ HasRoom(history, inflight[t])
                /\ storage' = [storage EXCEPT ![t] =
                        [update_task(@, "working") EXCEPT !.history = history]]
                /\ inflight' = [inflight EXCEPT ![t] =
                        @ (+) SetToBag({Invocation(op, LastMessage(history))})]
                /\ response' = Respond(op, t, "ok")
    /\ delivered' = <<>>
    /\ UNCHANGED <<resuming, collab, handler, cbVars, uiVars>>

\* stream_chunk that also appends the chunk to the task's artifacts.
stream_chunk_persisting(t, inv) ==
    LET n == Len(inv.events)
        chunk == chunk_of(handler[inv.input].text, n)
        event == ArtifactEvent(artifact_id(inv.input, n), chunk, FALSE)
    IN  /\ BagIn(inv, inflight[t])
        /\ inv.mode = "stream"
        /\ inv.phase = "computing"
        /\ n <= MaxChunks
        /\ inflight' = [inflight EXCEPT ![t] =
                (@ (-) SetToBag({inv})) (+) SetToBag({[inv EXCEPT !.events = Append(@, event)]})]
        /\ storage' = [storage EXCEPT ![t].artifacts =
                Append(@, [text |-> chunk.text, signature |-> chunk.signature])]
        /\ collab' = [collab EXCEPT !.chunks[t] = counted(@)]
        /\ response' = NoResponse
        /\ delivered' = <<>>
        /\ UNCHANGED <<resuming, handler, cbVars, uiVars>>

(* stream, step 2: the running computation yields one more chunk, which goes *)
(* to the caller as an artifact event (append=true, the stream's artifact   *)
(* id) and is not written to storage.                                       *)
stream_chunk(t, inv) ==
    LET n == Len(inv.events)
        chunk == chunk_of(handler[inv.input].text, n)
        event == ArtifactEvent(artifact_id(inv.input, n), chunk, FALSE)
    IN  /\ BagIn(inv, inflight[t])
        /\ inv.mode = "stream"
        /\ inv.phase = "computing"
        /\ n <= MaxChunks
        /\ inflight' = [inflight EXCEPT ![t] =
                (@ (-) SetToBag({inv})) (+) SetToBag({[inv EXCEPT !.events = Append(@, event)]})]
        /\ collab' = [collab EXCEPT !.chunks[t] = counted(@)]
        /\ response' = NoResponse
        /\ delivered' = <<>>
        /\ UNCHANGED <<storage, resuming, handler, cbVars, uiVars>>

\* The invocation once its computation has returned a final text: the payment
\* settlement is invoked, and a stream has sent the last_chunk marker.
Settling(inv) ==
    [inv EXCEPT !.phase = "settling",
                !.events = emitted(inv, Append(@, last_chunk_event(inv, handler[inv.input].text)))]

\* finish_task that stops only on a canceled task: the result of an
\* invocation is written whatever other state the task has reached.
finish_task_stopping_on_canceled_only(t, inv, call) ==
    LET result == handler[inv.input]
        outcome == classify(call, result)
        task == storage[t]
        ended == inflight[t] (-) SetToBag({inv})
    IN  /\ BagIn(inv, inflight[t])
        /\ inv.phase = "computing"
        /\ IF task.state = "canceled"
           THEN /\ inflight' = [inflight EXCEPT ![t] = ended]
                /\ response' = NoResponse
                /\ delivered' = inv.events
                /\ UNCHANGED <<storage, collab>>
           ELSE IF outcome = "error"
           THEN /\ inflight' = [inflight EXCEPT ![t] = ended]
                /\ storage' = [storage EXCEPT ![t] =
                        [update_task(@, "failed") EXCEPT !.error = error_of(call)]]
                /\ response' = Respond("result", t, error_of(call))
                /\ delivered' = emitted(inv, Append(inv.events, StatusEvent("failed", TRUE)))
                /\ UNCHANGED collab
           ELSE IF outcome = "input-required"
           THEN /\ inflight' = [inflight EXCEPT ![t] = ended]
                /\ storage' = [storage EXCEPT ![t] =
                        [update_task(@, "input-required") EXCEPT
                            !.history = Append(@, Message("agent", result.text))]]
                /\ response' = Respond("result", t, "input-required")
                /\ delivered' = emitted(inv, inv.events \o
                        <<last_chunk_event(inv, result.text),
                          StatusEvent("input-required", TRUE)>>)
                /\ UNCHANGED collab
           ELSE /\ collab' = [collab EXCEPT !.sign[t] = counted(@),
                                            !.settle[t] = counted(@)]
                /\ inflight' = [inflight EXCEPT ![t] = ended (+) SetToBag({Settling(inv)})]
                /\ response' = NoResponse
                /\ delivered' = <<>>
                /\ UNCHANGED storage
        /\ UNCHANGED <<resuming, handler, cbVars, uiVars>>

(* run / stream, steps (d) to (h), up to the payment: the computation call   *)
(* of invocation inv comes back through the resilience layer (call).  At     *)
(* this I/O boundary the invocation reads the task's state and does nothing  *)
(* more when the task is no longer working.  The result is classified;       *)
(* failed and input-required are persisted; a final text is signed and the   *)
(* payment settlement invoked, which is the next I/O boundary.  A stream     *)
(* sends the last_chunk marker when the output is exhausted, and the status  *)
(* event of the state it has persisted, final=true.                          *)
finish_task(t, inv, call) ==
    LET result == handler[inv.input]
        outcome == classify(call, result)
        task == storage[t]
        ended == inflight[t] (-) SetToBag({inv})
    IN  /\ BagIn(inv, inflight[t])
        /\ inv.phase = "computing"
        /\ IF task.state # "working"
           THEN /\ inflight' = [inflight EXCEPT ![t] = ended]
                /\ response' = NoResponse
                /\ delivered' = inv.events
                /\ UNCHANGED <<storage, collab>>
           ELSE IF outcome = "error"
           THEN /\ inflight' = [inflight EXCEPT ![t] = ended]
                /\ storage' = [storage EXCEPT ![t] =
                        [update_task(@, "failed") EXCEPT !.error = error_of(call)]]
                /\ response' = Respond("result", t, error_of(call))
                /\ delivered' = emitted(inv, Append(inv.events, StatusEvent("failed", TRUE)))
                /\ UNCHANGED collab
           ELSE IF outcome = "input-required"
           THEN /\ inflight' = [inflight EXCEPT ![t] = ended]
                /\ storage' = [storage EXCEPT ![t] =
                        [update_task(@, "input-required") EXCEPT
                            !.history = Append(@, Message("agent", result.text))]]
                /\ response' = Respond("result", t, "input-required")
                /\ delivered' = emitted(inv, inv.events \o
                        <<last_chunk_event(inv, result.text),
                          StatusEvent("input-required", TRUE)>>)
                /\ UNCHANGED collab
           ELSE /\ collab' = [collab EXCEPT !.sign[t] = counted(@),
                                            !.settle[t] = counted(@)]
                /\ inflight' = [inflight EXCEPT ![t] = ended (+) SetToBag({Settling(inv)})]
                /\ response' = NoResponse
                /\ delivered' = <<>>
                /\ UNCHANGED storage
        /\ UNCHANGED <<resuming, handler, cbVars, uiVars>>

\* complete_task that writes its result whatever state the task is in.
complete_task_unchecked(t, inv, settlement) ==
    LET result == handler[inv.input]
    IN  /\ BagIn(inv, inflight[t])
        /\ inv.phase = "settling"
        /\ inflight' = [inflight EXCEPT ![t] = @ (-) SetToBag({inv})]
        /\ storage' = [storage EXCEPT ![t] =
                [update_task(@, state_after_settlement(settlement)) EXCEPT
                    !.history = Append(@, Message("agent", result.text)),
                    !.artifacts = Append(@, sign(result.text))]]
        /\ response' = Respond("result", t, storage'[t].state)
        /\ delivered' = emitted(inv, Append(inv.events, StatusEvent(storage'[t].state, TRUE)))
        /\ UNCHANGED <<resuming, collab, handler, cbVars, uiVars>>

\* complete_task of which a stream persists the artifact and not the message.
complete_task_stream_without_message(t, inv, settlement) ==
    LET result == handler[inv.input]
        task == storage[t]
    IN  /\ BagIn(inv, inflight[t])
        /\ inv.phase = "settling"
        /\ inflight' = [inflight EXCEPT ![t] = @ (-) SetToBag({inv})]
        /\ IF task.state # "working"
           THEN /\ response' = NoResponse
                /\ delivered' = inv.events
                /\ UNCHANGED storage
           ELSE /\ storage' = [storage EXCEPT ![t] =
                        [update_task(@, state_after_settlement(settlement)) EXCEPT
                            !.history = IF inv.mode = "stream" THEN @
                                        ELSE Append(@, Message("agent", result.text)),
                            !.artifacts = Append(@, sign(result.text))]]
                /\ response' = Respond("result", t, storage'[t].state)
                /\ delivered' = emitted(inv,
                        Append(inv.events, StatusEvent(storage'[t].state, TRUE)))
        /\ UNCHANGED <<resuming, collab, handler, cbVars, uiVars>>

(* run / stream, step (f), after the payment: the settlement call is back   *)
(* (settlement: what the payment collaborator answers); the invocation      *)
(* checks the task's state before the write and persists completed with the *)
(* signed artifact, or stops when the task is no longer working.  A stream  *)
(* then sends the completed status event, final=true.                       *)
complete_task(t, inv, settlement) ==
    LET result == handler[inv.input]
        task == storage[t]
    IN  /\ BagIn(inv, inflight[t])
        /\ inv.phase = "settling"
        /\ inflight' = [inflight EXCEPT ![t] = @ (-) SetToBag({inv})]
        /\ IF task.state # "working"
           THEN /\ response' = NoResponse
                /\ delivered' = inv.events
                /\ UNCHANGED storage
           ELSE /\ storage' = [storage EXCEPT ![t] =
                        [update_task(@, state_after_settlement(settlement)) EXCEPT
                            !.history = Append(@, Message("agent", result.text)),
                            !.artifacts = Append(@, sign(result.text))]]
                /\ response' = Respond("result", t, storage'[t].state)
                /\ delivered' = emitted(inv,
                        Append(inv.events, StatusEvent(storage'[t].state, TRUE)))
        /\ UNCHANGED <<resuming, collab, handler, cbVars, uiVars>>

\* stream_error that sends the failed event only when failed was persisted.
stream_error_silent(t, inv, persisted) ==
    /\ BagIn(inv, inflight[t])
    /\ inv.mode = "stream"
    /\ inflight' = [inflight EXCEPT ![t] = @ (-) SetToBag({inv})]
    /\ IF persisted /\ storage[t].state = "working"
       THEN /\ storage' = [storage EXCEPT ![t] =
                    [update_task(@, "failed") EXCEPT !.error = "ExecutionFailed"]]
            /\ delivered' = Append(inv.events, StatusEvent("failed", TRUE))
       ELSE /\ delivered' = inv.events
            /\ UNCHANGED storage
    /\ response' = Respond("result", t, "ExecutionFailed")
    /\ UNCHANGED <<resuming, collab, handler, cbVars, uiVars>>

(* stream, the error path: a storage call of the stream fails in mid-flight. *)
(* The stream tries to persist failed (persisted: whether that write goes    *)
(* through; it is not made on a task that is no longer working); an error of *)
(* that write is logged, and the failed status event, final=true, is sent    *)
(* to the client either way.                                                 *)
stream_error(t, inv, persisted) ==
    /\ BagIn(inv, inflight[t])
    /\ inv.mode = "stream"
    /\ inflight' = [inflight EXCEPT ![t] = @ (-) SetToBag({inv})]
    /\ IF persisted /\ storage[t].state = "working"
       THEN storage' = [storage EXCEPT ![t] =
                    [update_task(@, "failed") EXCEPT !.error = "ExecutionFailed"]]
       ELSE UNCHANGED storage
    /\ response' = Respond("result", t, "ExecutionFailed")
    /\ delivered' = Append(inv.events, StatusEvent("failed", TRUE))
    /\ UNCHANGED <<resuming, collab, handler, cbVars, uiVars>>

(* pause_task(task_id) *)
pause_task(t) ==
    /\ IF t \notin DOMAIN storage
       THEN /\ response' = Respond("pause", t, "TaskNotFound")
            /\ UNCHANGED storage
       ELSE IF storage[t].state \notin PausableStates
       THEN /\ response' = Respond("pause", t, "TaskNotPausable")
            /\ UNCHANGED storage
       ELSE /\ HasRoom(storage[t].history, inflight[t])
            /\ storage' = [storage EXCEPT ![t] = save_checkpoint(@)]
            /\ response' = Respond("pause", t, "ok")
    /\ delivered' = <<>>
    /\ UNCHANGED <<inflight, resuming, collab, handler, cbVars, uiVars>>

\* resume_task that also takes a task the first resume has moved to resumed.
resume_task_again(t) ==
    /\ IF t \notin DOMAIN storage
       THEN /\ response' = Respond("resume", t, "TaskNotFound")
            /\ UNCHANGED <<storage, resuming>>
       ELSE IF storage[t].state \notin {"suspended", "resumed"}
       THEN /\ response' = Respond("resume", t, "TaskNotResumable")
            /\ UNCHANGED <<storage, resuming>>
       ELSE /\ storage' = [storage EXCEPT ![t] = update_task(@, "resumed")]
            /\ resuming' = [resuming EXCEPT ![t] = TRUE]
            /\ response' = Respond("resume", t, "ok")
    /\ delivered' = <<>>
    /\ UNCHANGED <<inflight, collab, handler, cbVars, uiVars>>

(* resume_task(task_id): load the checkpoint, state -> resumed *)
resume_task(t) ==
    /\ IF t \notin DOMAIN storage
       THEN /\ response' = Respond("resume", t, "TaskNotFound")
            /\ UNCHANGED <<storage, resuming>>
       ELSE IF storage[t].state # "suspended"
       THEN /\ response' = Respond("resume", t, "TaskNotResumable")
            /\ UNCHANGED <<storage, resuming>>
       ELSE /\ storage' = [storage EXCEPT ![t] = update_task(@, "resumed")]
            /\ resuming' = [resuming EXCEPT ![t] = TRUE]
            /\ response' = Respond("resume", t, "ok")
    /\ delivered' = <<>>
    /\ UNCHANGED <<inflight, collab, handler, cbVars, uiVars>>

\* continue_task that leaves the checkpoint in metadata.
continue_task_keeping_checkpoint(t) ==
    /\ resuming[t]
    /\ resuming' = [resuming EXCEPT ![t] = FALSE]
    /\ IF storage[t].state = "resumed"
       THEN /\ storage' = [storage EXCEPT ![t] = update_task(@, "working")]
            /\ inflight' = [inflight EXCEPT ![t] =
                    @ (+) SetToBag({Invocation("run",
                                    LastMessage(storage[t].checkpoint.message_history))})]
       ELSE UNCHANGED <<storage, inflight>>
    /\ response' = NoResponse
    /\ delivered' = <<>>
    /\ UNCHANGED <<collab, handler, cbVars, uiVars>>

\* continue_task that rebuilds run_params from the first message of the
\* checkpointed history.
continue_task_from_first_message(t) ==
    /\ resuming[t]
    /\ resuming' = [resuming EXCEPT ![t] = FALSE]
    /\ IF storage[t].state = "resumed"
       THEN /\ storage' = [storage EXCEPT ![t] = update_task(clear_checkpoint(@), "working")]
            /\ inflight' = [inflight EXCEPT ![t] =
                    @ (+) SetToBag({Invocation("run",
                                    storage[t].checkpoint.message_history[1].text)})]
       ELSE /\ storage' = [storage EXCEPT ![t] = clear_checkpoint(@)]
            /\ UNCHANGED inflight
    /\ response' = NoResponse
    /\ delivered' = <<>>
    /\ UNCHANGED <<collab, handler, cbVars, uiVars>>

(* The rest of the resume: rebuild run_params from the last message of the   *)
(* checkpointed history, clear the checkpoint, then run_task() continues the *)
(* execution, unless the task was canceled meanwhile.                        *)
continue_task(t) ==
    /\ resuming[t]
    /\ resuming' = [resuming EXCEPT ![t] = FALSE]
    /\ IF storage[t].state = "resumed"
       THEN /\ storage' = [storage EXCEPT ![t] = update_task(clear_checkpoint(@), "working")]
            /\ inflight' = [inflight EXCEPT ![t] =
                    @ (+) SetToBag({Invocation("run",
                                    LastMessage(storage[t].checkpoint.message_history))})]
       ELSE /\ storage' = [storage EXCEPT ![t] = clear_checkpoint(@)]
            /\ UNCHANGED inflight
    /\ response' = NoResponse
    /\ delivered' = <<>>
    /\ UNCHANGED <<collab, handler, cbVars, uiVars>>

(* cancel_task(task_id) *)
cancel_task(t) ==
    /\ IF t \notin DOMAIN storage
       THEN /\ response' = Respond("cancel", t, "TaskNotFound")
            /\ UNCHANGED storage
       ELSE IF storage[t].state \notin NonTerminalStates
       THEN /\ response' = Respond("cancel", t, "TaskNotCancelable")
            /\ UNCHANGED storage
       ELSE /\ storage' = [storage EXCEPT ![t] = update_task(@, "canceled")]
            /\ response' = Respond("cancel", t, "ok")
    /\ delivered' = <<>>
    /\ UNCHANGED <<inflight, resuming, collab, handler, cbVars, uiVars>>

----------------------------------------------------------------------------
InitCB ==
    /\ settings \in CircuitBreakerSettings
    /\ registry = <<>>
    /\ now = 0
    /\ caller = [c \in Callers |-> IdleCaller]
    /\ InitTasks
    /\ InitNoClient
    /\ handler = [text \in Texts |-> result_of("final", text)]

\* _cb_guarded_call that goes through the breaker whatever the enabled flag is.
_cb_guarded_call_always(c, op) ==
    LET key == OperationKey(op)
        fresh == [IdleCaller EXCEPT !.op = op]
        reg == get_circuit_breaker(registry, key)
        b == _maybe_transition_to_half_open(reg[key], now)
    IN  /\ caller[c].pc = "idle"
        /\ registry' = [reg EXCEPT ![key] = b]
        /\ IF _is_call_allowed(b)
           THEN caller' = [caller EXCEPT ![c] =
                    [fresh EXCEPT !.pc = "retrying", !.admitted_in = b.state]]
           ELSE caller' = [caller EXCEPT ![c] =
                    [fresh EXCEPT !.result = "CircuitOpen",
                                  !.retry_after = _seconds_until_half_open(b, now)]]
        /\ UNCHANGED <<settings, now, taskVars, uiVars>>

(* wrapper() of a retry decorator -> _cb_guarded_call(key, _inner), up to the *)
(* point where _inner starts or CircuitBreakerOpenError is raised.            *)
_cb_guarded_call(c, op) ==
    LET key == OperationKey(op)
        fresh == [IdleCaller EXCEPT !.op = op]
    IN  /\ caller[c].pc = "idle"
        /\ IF ~settings.enabled
           THEN /\ caller' = [caller EXCEPT ![c] = [fresh EXCEPT !.pc = "retrying"]]
                /\ UNCHANGED registry
           ELSE LET reg == get_circuit_breaker(registry, key)
                    b == _maybe_transition_to_half_open(reg[key], now)
                IN  /\ registry' = [reg EXCEPT ![key] = b]
                    /\ IF _is_call_allowed(b)
                       THEN caller' = [caller EXCEPT ![c] =
                                [fresh EXCEPT !.pc = "retrying", !.admitted_in = b.state]]
                       ELSE caller' = [caller EXCEPT ![c] =
                                [fresh EXCEPT !.result = "CircuitOpen",
                                              !.retry_after = _seconds_until_half_open(b, now)]]
        /\ UNCHANGED <<settings, now, taskVars, uiVars>>

\* The breaker inside the retry loop: every failed attempt is recorded.
Attempt_recording_each_failure(c, outcome) ==
    LET me == caller[c]
        key == OperationKey(me.op)
        tried == [me EXCEPT !.seen = Append(@, outcome)]
        exhausted == Len(tried.seen) >= MaxAttempts
    IN  /\ me.pc = "retrying"
        /\ caller' = [caller EXCEPT ![c] =
                IF outcome = "fail" /\ ~exhausted
                THEN tried
                ELSE [tried EXCEPT !.pc = "idle",
                                   !.result = IF outcome = "ok" THEN "ok" ELSE "error"]]
        /\ IF ~settings.enabled
           THEN UNCHANGED registry
           ELSE registry' = [registry EXCEPT ![key] =
                    IF outcome = "ok" THEN _record_success(@, now)
                                      ELSE _record_failure(@, now)]
        /\ UNCHANGED <<settings, now, taskVars, uiVars>>

(* One attempt of _inner, the Tenacity loop: func is invoked and succeeds or   *)
(* fails.  A success ends the loop with the result, the max_attempts-th        *)
(* failure ends it with the error, any other failure is retried.  When the     *)
(* loop has ended, cb.call records the outcome under the breaker's lock and    *)
(* the caller gets the result or the original error; with the breaker disabled *)
(* the loop's outcome is returned as it is.                                    *)
Attempt(c, outcome) ==
    LET me == caller[c]
        key == OperationKey(me.op)
        tried == [me EXCEPT !.seen = Append(@, outcome)]
        exhausted == Len(tried.seen) >= MaxAttempts
    IN  /\ me.pc = "retrying"
        /\ IF outcome = "fail" /\ ~exhausted
           THEN /\ caller' = [caller EXCEPT ![c] = tried]
                /\ UNCHANGED registry
           ELSE /\ caller' = [caller EXCEPT ![c] =
                        [tried EXCEPT !.pc = "idle",
                                      !.result = IF outcome = "ok" THEN "ok" ELSE "error"]]
                /\ IF ~settings.enabled
                   THEN UNCHANGED registry
                   ELSE registry' = [registry EXCEPT ![key] =
                            IF outcome = "ok" THEN _record_success(@, now)
                                              ELSE _record_failure(@, now)]
        /\ UNCHANGED <<settings, now, taskVars, uiVars>>

(* The monotonic clock advances. *)
Tick ==
    /\ now < MaxTime
    /\ now' = now + 1
    /\ UNCHANGED <<settings, registry, caller, taskVars, uiVars>>

(* Concurrent callers of one decorated operation. *)
NextCB ==
    \/ \E c \in Callers : _cb_guarded_call(c, <<"storage", "save_task">>)
    \/ \E c \in Callers, outcome \in {"ok", "fail"} : Attempt(c, outcome)
    \/ Tick

SpecCB == InitCB /\ [][NextCB]_vars

(* One caller of several decorated operations, each with its own breaker. *)
NextIso ==
    \/ \E op \in Operations : _cb_guarded_call("c1", op)
    \/ \E outcome \in {"ok", "fail"} : Attempt("c1", outcome)
    \/ Tick

SpecIso == InitCB /\ [][NextIso]_vars

(* The task lifecycle: requests and worker steps on every task.  The circuit *)
(* breaker is at its default, disabled.                                      *)
InitLifecycle ==
    /\ settings = [enabled |-> FALSE, failure_threshold |-> 1,
                   recovery_timeout |-> 1, success_threshold |-> 1]
    /\ registry = <<>>
    /\ now = 0
    /\ caller = [c \in Callers |-> IdleCaller]
    /\ InitTasks

Init == InitLifecycle /\ InitNoClient /\ handler \in Handlers

Next ==
    \/ \E t \in Tasks, input \in Inputs : submit_task(t, input)
    \/ \E t \in Tasks, op \in {"run", "stream"}, input \in MoreInputs : run_task(t, op, input)
    \/ \E t \in Tasks : \E inv \in BagToSet(inflight[t]) : stream_chunk(t, inv)
    \/ \E t \in Tasks : \E inv \in BagToSet(inflight[t]), call \in CallResults :
            finish_task(t, inv, call)
    \/ \E t \in Tasks : \E inv \in BagToSet(inflight[t]), settlement \in {"success", "failure"} :
            complete_task(t, inv, settlement)
    \/ \E t \in Tasks : \E inv \in BagToSet(inflight[t]), persisted \in BOOLEAN :
            stream_error(t, inv, persisted)
    \/ \E t \in Tasks : pause_task(t)
    \/ \E t \in Tasks : resume_task(t)
    \/ \E t \in Tasks : continue_task(t)
    \/ \E t \in Tasks : cancel_task(t)

Spec == Init /\ [][Next]_vars

(* The scheduler runs every worker step that stays ready: the rest of a    *)
(* resume, and the end of an invocation in flight.  Requests are not fair: *)
(* no client has to send one.                                              *)
Fairness ==
    \A t \in Tasks :
        /\ WF_vars(continue_task(t))
        /\ WF_vars(\E inv \in BagToSet(inflight[t]), call \in CallResults :
                        finish_task(t, inv, call))
        /\ WF_vars(\E inv \in BagToSet(inflight[t]), settlement \in {"success", "failure"} :
                        complete_task(t, inv, settlement))

SpecLive == Init /\ [][Next]_vars /\ Fairness

----------------------------------------------------------------------------
(* api/auth.js *)

\* The server side at rest, for the specifications of the web client.
InitServer == InitLifecycle /\ handler = [text \in Texts |-> result_of("final", text)]

(* setAuthToken(token) *)
setAuthToken(token) ==
    LET cleanToken == IF Truthy(token) THEN trim(token) ELSE Null
    IN  /\ IF Truthy(cleanToken) /\ ~IsAscii(cleanToken)
           THEN /\ returned' = Throws("Auth token contains non-ASCII characters")
                /\ UNCHANGED <<store, authStorage>>
           ELSE /\ store' = [store EXCEPT !.authToken = cleanToken]
                \* storage.setAuthToken(cleanToken) or storage.clearAuthToken()
                /\ authStorage' = IF Truthy(cleanToken) THEN cleanToken ELSE Null
                /\ returned' = Returns(cleanToken)
        /\ UNCHANGED <<serverVars, requests, chatVars, pollVars>>

(* getAuthToken() *)
getAuthToken ==
    /\ returned' = Returns(IF Truthy(store.authToken) THEN store.authToken ELSE authStorage)
    /\ UNCHANGED <<store, authStorage, serverVars, requests, chatVars, pollVars>>

(* clearAuthToken() *)
clearAuthToken ==
    /\ store' = [store EXCEPT !.authToken = Null]
    /\ authStorage' = Null
    /\ returned' = Returns(Null)
    /\ UNCHANGED <<serverVars, requests, chatVars, pollVars>>

(* validateToken(token) *)
validateToken(token) == Truthy(token) /\ IsAscii(trim(token))

(* initializeAuth(), on a page that has just been loaded *)
initializeAuth ==
    LET storedToken == authStorage
    IN  /\ store' = IF Truthy(storedToken) /\ validateToken(storedToken)
                    THEN [NewStore EXCEPT !.authToken = storedToken]
                    ELSE NewStore
        /\ returned' = Returns(Null)
        /\ UNCHANGED <<authStorage, serverVars, requests, chatVars, pollVars>>

\* The browser's storage outlives the page and is shared by everything served
\* from the same origin: at the first page load it holds any token or none.
InitAuth ==
    /\ InitServer
    /\ store = NewStore
    /\ authStorage \in Tokens
    /\ returned = NotCalled
    /\ requests = <<>>
    /\ chatArea = <<>>
    /\ flow = IdleFlow
    /\ app = NewApp
    /\ poller = NewPoller

NextAuth ==
    \/ \E token \in Tokens : setAuthToken(token)
    \/ getAuthToken
    \/ clearAuthToken
    \/ initializeAuth

SpecAuth == InitAuth /\ [][NextAuth]_vars

----------------------------------------------------------------------------
(* api/tasks.js *)

\* The task states a client can have been told.
ClientStatuses == TaskStates \cup {"auth-required"}

ContextIds == {"null", "ctx1"}

(* createTask(input): the payload and the request options, from the store *)
createTaskRequest(state, input) ==
    LET currentTaskId == state.currentTaskId
        currentTaskState == state.currentTaskState
        known == currentTaskId # "null" /\ currentTaskState # NoTaskState
        isTerminal == currentTaskState.status \in {"completed", "failed", "canceled"}
    IN  [method |-> "tasks.create",
         input |-> input,
         contextId |-> IF state.contextId # "null" THEN state.contextId ELSE "undefined",
         taskId |-> IF known /\ ~isTerminal THEN currentTaskId ELSE "undefined",
         \* <<>>: the payload has no referenceTaskIds
         referenceTaskIds |-> IF known /\ isTerminal THEN <<currentTaskId>> ELSE <<>>,
         token |-> IF Truthy(state.authToken) THEN state.authToken ELSE Null,
         paymentToken |-> IF Truthy(state.paymentToken) THEN state.paymentToken ELSE Null]

(* createTask(input), up to the request *)
createTask(input) ==
    /\ Len(requests) < MaxRequests
    /\ requests' = Append(requests, createTaskRequest(store, input))
    /\ UNCHANGED <<store, authStorage, returned, serverVars, chatVars, pollVars>>

\* createTask reads the store; the store holds any current task or none, in
\* any state the client has been told.
InitCreateTask ==
    /\ InitServer
    /\ store \in {[NewStore EXCEPT !.contextId = contextId,
                                   !.currentTaskId = currentTaskId,
                                   !.currentTaskState = currentTaskState,
                                   !.authToken = authToken,
                                   !.paymentToken = paymentToken] :
                    contextId \in ContextIds,
                    currentTaskId \in {"null"} \cup Tasks,
                    currentTaskState \in {NoTaskState} \cup [status : ClientStatuses],
                    authToken \in {Null, <<"a">>},
                    paymentToken \in {Null, <<"a">>}}
    /\ authStorage = Null
    /\ returned = NotCalled
    /\ requests = <<>>
    /\ chatArea = <<>>
    /\ flow = IdleFlow
    /\ app = NewApp
    /\ poller = NewPoller

NextCreateTask == \E input \in Inputs \cup MoreInputs : createTask(input)

SpecCreateTask == InitCreateTask /\ [][NextCreateTask]_vars

----------------------------------------------------------------------------
(* api/payment.js and chat/chat.js *)

(* store.updateTask(task) *)
updateTask(state, id, status) ==
    [state EXCEPT !.currentTaskId = id,
                  !.currentTaskState = IF id = "null" THEN NoTaskState ELSE [status |-> status]]

\* What createTask comes back with: a response that parseTaskResponse reads
\* as a task, as a UI flag or as an error, or an exception.
CreateResponses ==
    {"task", "payment-required", "auth-required", "error",
     "ApiError 401", "ApiError 402", "ApiError 500", "TypeError"}

\* What startPaymentSession and window.open come back with.
SessionResponses == {"session", "no browser_url", "popup blocked", "request failed"}

\* What getPaymentStatus comes back with: a status, with or without a token,
\* or an exception.
StatusResponses ==
    {"pending", "completed", "completed, non-ASCII token", "completed, no token",
     "failed", "request failed"}

\* The message of the error a status poll throws inside the loop, if any.
poll_error(status) ==
    CASE status = "completed, non-ASCII token" -> "Payment token contains non-ASCII characters"
      [] status = "failed" -> "Payment declined"
      [] status = "request failed" -> "Request failed"
      [] OTHER -> "none"

\* sendMessage, from the call of handlePaymentFlow on, re-sending the message
\* whatever the payment flow came back with.
sendMessage_after_payment_resending(result) ==
    /\ Len(requests) < MaxRequests
    /\ store' = [store EXCEPT !.indicator = "thinking",
                    !.paymentToken = IF result.kind = "return" THEN result.value ELSE @]
    /\ requests' = Append(requests, createTaskRequest(store', flow.text))
    /\ flow' = [flow EXCEPT !.pc = "createTask", !.attempts = 0, !.status = "none"]
    /\ UNCHANGED chatArea

(* sendMessage, lines 26-35 and 60-62: handlePaymentFlow has come back.  On  *)
(* success the message is sent again: sendMessage(text), up to its request. *)
sendMessage_after_payment(result) ==
    IF result.kind = "return"
    THEN /\ Len(requests) < MaxRequests
         /\ store' = [store EXCEPT !.indicator = "thinking", !.paymentToken = result.value]
         /\ requests' = Append(requests, createTaskRequest(store', flow.text))
         /\ flow' = [flow EXCEPT !.pc = "createTask", !.attempts = 0, !.status = "none"]
         /\ UNCHANGED chatArea
    ELSE /\ store' = [store EXCEPT !.error = "Payment failed", !.indicator = "null"]
         /\ flow' = [flow EXCEPT !.pc = "idle"]
         /\ UNCHANGED <<requests, chatArea>>

(* sendMessage(text), up to the createTask request *)
sendMessage(text) ==
    /\ flow.pc = "idle"
    /\ IF text = ""
       THEN UNCHANGED <<store, requests, flow>>
       ELSE /\ Len(requests) < MaxRequests
            /\ store' = [store EXCEPT !.indicator = "thinking"]
            /\ requests' = Append(requests, createTaskRequest(store, text))
            /\ flow' = [IdleFlow EXCEPT !.pc = "createTask", !.fn = "sendMessage",
                                        !.text = text]
    /\ returned' = NotCalled
    /\ UNCHANGED <<authStorage, chatArea, serverVars, pollVars>>

(* sendMessage, lines 17-62: createTask has come back *)
sendMessage_response(resp) ==
    /\ flow.pc = "createTask"
    /\ flow.fn = "sendMessage"
    /\ CASE resp = "task" ->
                /\ store' = [updateTask(store, "t1", "submitted") EXCEPT !.indicator = "null"]
                /\ flow' = [flow EXCEPT !.pc = "idle"]
         [] resp = "payment-required" ->
                \* handlePaymentFlow, up to startPaymentSession
                /\ store' = [store EXCEPT !.indicator = "payment"]
                /\ flow' = [flow EXCEPT !.pc = "startPaymentSession"]
         [] resp \in {"auth-required", "ApiError 401"} ->
                /\ store' = [store EXCEPT !.indicator = "null"]
                /\ flow' = [flow EXCEPT !.pc = "idle", !.emitted = "auth-required"]
         [] resp = "ApiError 402" ->
                /\ store' = [store EXCEPT !.indicator = "null"]
                /\ flow' = [flow EXCEPT !.pc = "idle", !.emitted = "payment-required"]
         [] resp = "error" ->
                /\ store' = [store EXCEPT !.error = "Task error", !.indicator = "null"]
                /\ flow' = [flow EXCEPT !.pc = "idle"]
         [] resp = "ApiError 500" ->
                /\ store' = [store EXCEPT !.error = "Request failed", !.indicator = "null"]
                /\ flow' = [flow EXCEPT !.pc = "idle"]
         [] OTHER ->
                /\ store' = [store EXCEPT !.error = "Network error", !.indicator = "null"]
                /\ flow' = [flow EXCEPT !.pc = "idle"]
    /\ returned' = NotCalled
    /\ UNCHANGED <<requests, authStorage, chatArea, serverVars, pollVars>>

(* components.chatArea.addMessage(text, sender, taskId): the message, by its *)
(* kind; poll is the interval of the poll that added it, 0 if none did.      *)
Message_(kind, sender, taskId, poll) ==
    [kind |-> kind, sender |-> sender, taskId |-> taskId, poll |-> poll]

(* pollTaskStatus: the closure of one poll, with the callbacks of it that   *)
(* are waiting for the answer to their tasks/get request                    *)
NewTimer(taskId) == [taskId |-> taskId, attempts |-> 0, cleared |-> FALSE, inflight |-> 0]

(* clearInterval(id) *)
clearInterval(timers, id) ==
    IF id \in 1..Len(timers) THEN [timers EXCEPT ![id].cleared = TRUE] ELSE timers

(* pollTaskStatus(taskId) *)
pollTaskStatus(a, taskId) ==
    LET timers == clearInterval(a.timers, a.pollingInterval)
    IN  [a EXCEPT !.pollingTaskId = taskId,
                  !.timers = Append(timers, NewTimer(taskId)),
                  !.pollingInterval = Len(timers) + 1]

(* handleMessageSend(text), up to the createTask request *)
handleMessageSend_request(state, text) ==
    /\ Len(requests) < MaxRequests
    /\ store' = [state EXCEPT !.indicator = "thinking"]
    /\ requests' = Append(requests, createTaskRequest(state, text))
    /\ flow' = [IdleFlow EXCEPT !.pc = "createTask", !.fn = "handleMessageSend", !.text = text]

(* handlePaymentRequired, lines 452-464: handlePaymentFlow has come back *)
handlePaymentRequired(state, result) ==
    IF result.kind = "return"
    THEN [state EXCEPT !.paymentToken = result.value, !.indicator = "null"]
    ELSE [state EXCEPT !.error = "Payment failed", !.indicator = "null"]

(* handleMessageSend, lines 147-148: handlePaymentRequired has come back and *)
(* handleMessageSend(text, replyToTaskId) is called again                   *)
handleMessageSend_after_payment(result) ==
    /\ Len(chatArea) < MaxChat
    /\ chatArea' = Append(chatArea,
            Message_(IF result.kind = "return" THEN "payment approved" ELSE "payment failed",
                     "status", "null", 0))
    /\ handleMessageSend_request(handlePaymentRequired(store, result), flow.text)

(* on(UI_FLAGS.PAYMENT_REQUIRED): handlePaymentRequired, which nobody awaits *)
handlePaymentRequired_done(result) ==
    /\ Len(chatArea) < MaxChat
    /\ chatArea' = Append(chatArea,
            Message_(IF result.kind = "return" THEN "payment approved" ELSE "payment failed",
                     "status", "null", 0))
    /\ store' = handlePaymentRequired(store, result)
    /\ flow' = [flow EXCEPT !.pc = "idle"]
    /\ UNCHANGED requests

\* The caller of handlePaymentFlow goes on with what it came back with.
after_payment(result) ==
    CASE flow.fn = "sendMessage" -> sendMessage_after_payment(result)
      [] flow.fn = "handleMessageSend" -> handleMessageSend_after_payment(result)
      [] OTHER -> handlePaymentRequired_done(result)

(* handlePaymentFlow, lines 87-98: startPaymentSession and window.open have *)
(* come back; without a session the flow throws, and its caller goes on.    *)
handlePaymentFlow_session(resp) ==
    /\ flow.pc = "startPaymentSession"
    /\ IF resp = "session"
       THEN /\ flow' = [flow EXCEPT !.pc = "getPaymentStatus"]
            /\ returned' = NotCalled
            /\ UNCHANGED <<store, requests, chatArea>>
       ELSE /\ returned' = Throws(resp)
            /\ after_payment(returned')
    /\ UNCHANGED <<authStorage, serverVars, pollVars>>

(* handlePaymentFlow, lines 132-136: the catch inside the polling loop *)
swallowed(attempts) == attempts < PaymentMaxAttempts

(* handlePaymentFlow, lines 104-139: one turn of the polling loop, the       *)
(* pause, attempts++ and the answer to getPaymentStatus; when the flow       *)
(* returns or throws, its caller goes on.                                    *)
handlePaymentFlow_poll(status) ==
    LET attempts == flow.attempts + 1
    IN  /\ flow.pc = "getPaymentStatus"
            /\ flow.attempts < PaymentMaxAttempts
        /\ IF status = "completed"
           THEN /\ returned' = Returns(<<"a">>)
                /\ after_payment(returned')
           ELSE IF poll_error(status) # "none" /\ ~swallowed(attempts)
           THEN /\ returned' = Throws(poll_error(status))
                /\ after_payment(returned')
           ELSE IF attempts >= PaymentMaxAttempts
           THEN /\ returned' = Throws("Payment timeout - please try again")
                /\ after_payment(returned')
           ELSE /\ flow' = [flow EXCEPT !.attempts = attempts, !.status = status]
                /\ returned' = NotCalled
                /\ UNCHANGED <<store, requests, chatArea>>
        /\ UNCHANGED <<authStorage, serverVars, pollVars>>

InitChat ==
    /\ InitServer
    /\ InitClient

NextChat ==
    \/ \E text \in Inputs \cup {""} : sendMessage(text)
    \/ \E resp \in CreateResponses : sendMessage_response(resp)
    \/ \E resp \in SessionResponses : handlePaymentFlow_session(resp)
    \/ \E status \in StatusResponses : handlePaymentFlow_poll(status)

SpecChat == InitChat /\ [][NextChat]_vars

----------------------------------------------------------------------------
(* app.js: BinduApp *)

\* The ids of the tasks the server answers with.
ClientTasks == {"t1", "t2"}

\* What the user answers to prompt('Enter JWT token'): Cancel (null), or a
\* text.
PromptAnswers == {Null, <<>>, <<"a">>, <<"eacute">>}

(* handleAuthSettings(), given the user's answer to the prompt *)
handleAuthSettings(answer) ==
    LET token == IF Truthy(answer) THEN answer ELSE Null
        cleanToken == IF Truthy(token) THEN trim(token) ELSE Null
    IN  IF answer = Null
        THEN UNCHANGED <<store, authStorage, chatArea>>
        ELSE IF Truthy(cleanToken) /\ ~IsAscii(cleanToken)
        THEN /\ store' = [store EXCEPT !.error = "Auth token contains non-ASCII characters",
                                       !.indicator = "null"]
             /\ UNCHANGED <<authStorage, chatArea>>
        ELSE /\ Len(chatArea) < MaxChat
             /\ store' = [store EXCEPT !.authToken = cleanToken, !.error = "null",
                                       !.indicator = "null"]
             /\ authStorage' = IF Truthy(cleanToken) THEN cleanToken ELSE Null
             /\ chatArea' = Append(chatArea,
                    Message_(IF Truthy(answer) THEN "token saved" ELSE "token cleared",
                             "status", "null", 0))

(* handleMessageSend(text) *)
handleMessageSend(text) ==
    /\ flow.pc = "idle"
    /\ handleMessageSend_request(store, text)
    /\ returned' = NotCalled
    /\ UNCHANGED <<authStorage, chatArea, serverVars, pollVars>>

(* handleMessageSend, lines 139-198: createTask has come back; id: the task *)
(* of the response, answer: what the user answers if asked for a token      *)
handleMessageSend_response(resp, id, answer) ==
    /\ flow.pc = "createTask"
    /\ flow.fn = "handleMessageSend"
    /\ returned' = NotCalled
    /\ CASE resp = "task" ->
                /\ Len(chatArea) < MaxChat
                /\ Len(app.timers) < MaxPolls
                /\ store' = [updateTask(store, id, "submitted") EXCEPT
                                !.contextId = IF @ = "null" THEN "ctx1" ELSE @,
                                !.indicator = "null"]
                /\ chatArea' = Append(chatArea, Message_("message", "user", id, 0))
                /\ app' = pollTaskStatus(app, id)
                /\ flow' = [flow EXCEPT !.pc = "idle"]
                /\ UNCHANGED authStorage
         [] resp = "payment-required" ->
                \* handlePaymentRequired, handlePaymentFlow, up to startPaymentSession
                /\ store' = [store EXCEPT !.indicator = "payment"]
                /\ flow' = [flow EXCEPT !.pc = "startPaymentSession"]
                /\ UNCHANGED <<authStorage, chatArea, app>>
         [] resp \in {"auth-required", "ApiError 401"} ->
                /\ handleAuthSettings(answer)
                /\ flow' = [flow EXCEPT !.pc = "idle", !.emitted = "auth-required"]
                /\ UNCHANGED app
         [] resp = "ApiError 402" ->
                \* emit(PAYMENT_REQUIRED): handlePaymentRequired is started
                /\ store' = [store EXCEPT !.indicator = "null"]
                /\ flow' = [flow EXCEPT !.pc = "startPaymentSession",
                                        !.fn = "handlePaymentRequired",
                                        !.emitted = "payment-required"]
                /\ UNCHANGED <<authStorage, chatArea, app>>
         [] resp = "error" ->
                /\ store' = [store EXCEPT !.error = "Task error", !.indicator = "null"]
                /\ flow' = [flow EXCEPT !.pc = "idle"]
                /\ UNCHANGED <<authStorage, chatArea, app>>
         [] resp = "ApiError 500" ->
                /\ store' = [store EXCEPT !.error = "Request failed", !.indicator = "null"]
                /\ flow' = [flow EXCEPT !.pc = "idle"]
                /\ UNCHANGED <<authStorage, chatArea, app>>
         [] OTHER ->
                /\ store' = [store EXCEPT !.error = "Network error", !.indicator = "null"]
                /\ flow' = [flow EXCEPT !.pc = "idle"]
                /\ UNCHANGED <<authStorage, chatArea, app>>
    /\ UNCHANGED <<requests, poller, serverVars>>

\* What a tasks/get request comes back with: the state of the task, or an
\* error (response not ok, a JSON-RPC error, an exception).
PollResponses ==
    {"working", "completed", "failed", "canceled", "input-required", "auth-required", "error"}

(* pollTaskStatus, lines 210-235: the interval fires and poll runs up to the *)
(* tasks/get request, or to the end if the attempts are used up             *)
poll(n) ==
    /\ n \in 1..Len(app.timers)
    /\ ~app.timers[n].cleared
    /\ IF app.timers[n].attempts >= PollMaxAttempts
       THEN /\ Len(chatArea) < MaxChat
            /\ chatArea' = Append(chatArea, Message_("timeout", "status", "null", n))
            /\ store' = updateTask(store, "null", "null")
            /\ UNCHANGED app
       ELSE /\ app' = [app EXCEPT !.timers[n].attempts = @ + 1,
                                  !.timers[n].inflight = @ + 1]
            /\ UNCHANGED <<chatArea, store>>
    /\ UNCHANGED <<authStorage, requests, returned, flow, poller, serverVars>>

(* pollTaskStatus, lines 237-283: the tasks/get request of one callback of  *)
(* poll n has come back                                                     *)
poll_response(n, taskState) ==
    LET taskId == app.timers[n].taskId
        back == [app EXCEPT !.timers[n].inflight = @ - 1]
        stopped == [back EXCEPT !.timers = clearInterval(@, back.pollingInterval)]
    IN  /\ n \in 1..Len(app.timers)
        /\ app.timers[n].inflight > 0
        /\ CASE taskState \in {"completed", "failed", "canceled"} ->
                    /\ Len(chatArea) < MaxChat
                    /\ app' = [stopped EXCEPT !.pollingTaskId = "null"]
                    /\ store' = [updateTask(store, taskId, taskState) EXCEPT
                                    !.paymentToken = Null]
                    /\ chatArea' = Append(chatArea,
                            IF taskState = "completed"
                            THEN Message_("response", "agent", taskId, n)
                            ELSE Message_(taskState, "status", "null", n))
             [] taskState \in {"input-required", "auth-required"} ->
                    /\ Len(chatArea) < MaxChat
                    /\ app' = stopped
                    /\ store' = updateTask(store, taskId, taskState)
                    /\ chatArea' = Append(chatArea, Message_("response", "agent", taskId, n))
             [] taskState = "error" ->
                    /\ app' = [stopped EXCEPT !.pollingTaskId = "null"]
                    /\ store' = [store EXCEPT !.error = "Error getting task status"]
                    /\ UNCHANGED chatArea
             [] OTHER ->
                    /\ app' = back
                    /\ UNCHANGED <<chatArea, store>>
        /\ UNCHANGED <<authStorage, requests, returned, flow, poller, serverVars>>

(* handleTaskCancel(taskId), up to the tasks/cancel request *)
handleTaskCancel(taskId) ==
    /\ app.canceling = "null"
    /\ app' = [app EXCEPT !.canceling = taskId]
    /\ UNCHANGED <<store, authStorage, requests, returned, chatVars, poller, serverVars>>

(* handleTaskCancel, lines 416-429: the tasks/cancel request has come back *)
handleTaskCancel_response(ok) ==
    /\ app.canceling # "null"
    /\ IF ok
       THEN /\ Len(chatArea) < MaxChat
            /\ store' = updateTask(store, "null", "null")
            /\ chatArea' = Append(chatArea, Message_("cancel ok", "status", "null", 0))
            /\ app' = [app EXCEPT !.canceling = "null",
                                  !.timers = clearInterval(@, app.pollingInterval),
                                  !.pollingInterval = 0]
       ELSE /\ store' = [store EXCEPT !.error = "Failed to cancel task"]
            /\ app' = [app EXCEPT !.canceling = "null"]
            /\ UNCHANGED chatArea
    /\ UNCHANGED <<authStorage, requests, returned, flow, poller, serverVars>>

(* pollTaskStatus(taskId), called on its own *)
pollTaskStatus_call(taskId) ==
    /\ Len(app.timers) < MaxPolls
    /\ app' = pollTaskStatus(app, taskId)
    /\ UNCHANGED <<store, authStorage, requests, returned, chatVars, poller, serverVars>>

InitApp ==
    /\ InitServer
    /\ InitClient

\* Sending a message: handleMessageSend and the payment flow.
NextApp ==
    \/ \E text \in Inputs : handleMessageSend(text)
    \/ \E resp \in CreateResponses, id \in ClientTasks, answer \in PromptAnswers :
            handleMessageSend_response(resp, id, answer)
    \/ \E resp \in SessionResponses : handlePaymentFlow_session(resp)
    \/ \E status \in StatusResponses : handlePaymentFlow_poll(status)

SpecApp == InitApp /\ [][NextApp]_vars

\* Polling a task: pollTaskStatus, the callbacks of its interval, and
\* handleTaskCancel.
NextPoll ==
    \/ \E taskId \in ClientTasks : pollTaskStatus_call(taskId)
    \/ \E n \in 1..MaxPolls : poll(n)
    \/ \E n \in 1..MaxPolls, taskState \in PollResponses : poll_response(n, taskState)
    \/ \E taskId \in ClientTasks : handleTaskCancel(taskId)
    \/ \E ok \in BOOLEAN : handleTaskCancel_response(ok)

SpecPoll == InitApp /\ [][NextPoll]_vars

----------------------------------------------------------------------------
(* TaskPoller *)

\* The callbacks of pollTask.
Callbacks == {"onUpdate", "onComplete", "onError"}

(* pollTask: the closure of one poll: its attempts, what it is waiting for  *)
(* (the answer to getTask, or the timeout before the next turn), the state  *)
(* it has last seen, and the calls it has made of each callback             *)
NewLoop(taskId) ==
    [taskId |-> taskId, attempts |-> 1, pc |-> "getTask", seen |-> "none",
     calls |-> [cb \in Callbacks |-> 0]]

(* pollTask(taskId, onUpdate, onComplete, onError), up to the first getTask *)
pollTask(taskId) ==
    /\ IF taskId \in poller.activePolls
       THEN UNCHANGED poller
       ELSE /\ Len(poller.loops) < MaxPolls
            /\ poller' = [poller EXCEPT !.activePolls = @ \cup {taskId},
                                        !.loops = Append(@, NewLoop(taskId))]
    /\ returned' = Returns(Null)
    /\ UNCHANGED <<store, authStorage, requests, chatVars, app, serverVars>>

(* poll, lines 284-305: getTask has come back with the task in a state, or   *)
(* with an error; throwing: the callbacks that throw when called            *)
poll_getTask(l, taskState, throwing) ==
    LET loop == poller.loops[l]
        seen == [loop EXCEPT !.seen = taskState]
        updated == [seen EXCEPT !.calls["onUpdate"] = @ + 1]
        caught(lp) == [lp EXCEPT !.calls["onError"] = @ + 1, !.pc = "done"]
        completed == [updated EXCEPT !.calls["onComplete"] = @ + 1, !.pc = "done"]
        timedOut == [updated EXCEPT !.calls["onError"] = @ + 1, !.pc = "done"]
        after ==
            IF taskState = "error" THEN caught(seen)
            ELSE IF "onUpdate" \in throwing THEN caught(updated)
            ELSE IF taskState \in {"completed", "failed", "canceled", "input-required"}
            THEN IF "onComplete" \in throwing THEN caught(completed) ELSE completed
            ELSE IF loop.attempts >= PollMaxAttempts
            THEN IF "onError" \in throwing THEN caught(timedOut) ELSE timedOut
            ELSE [updated EXCEPT !.pc = "setTimeout"]
    IN  /\ l \in 1..Len(poller.loops)
        /\ loop.pc = "getTask"
        /\ poller' = [poller EXCEPT
                !.loops[l] = after,
                !.activePolls = IF after.pc = "done" THEN @ \ {loop.taskId} ELSE @]
        /\ returned' = NotCalled
        /\ UNCHANGED <<store, authStorage, requests, chatVars, app, serverVars>>

(* poll, lines 282-284: the timeout has passed; attempts++ and getTask *)
poll_setTimeout(l) ==
    /\ l \in 1..Len(poller.loops)
    /\ poller.loops[l].pc = "setTimeout"
    /\ poller' = [poller EXCEPT !.loops[l].attempts = @ + 1, !.loops[l].pc = "getTask"]
    /\ returned' = NotCalled
    /\ UNCHANGED <<store, authStorage, requests, chatVars, app, serverVars>>

(* stopPolling(taskId) *)
stopPolling(taskId) ==
    /\ poller' = [poller EXCEPT !.activePolls = @ \ {taskId}]
    /\ returned' = Returns(<<"stopPolling", taskId>>)
    /\ UNCHANGED <<store, authStorage, requests, chatVars, app, serverVars>>

(* stopAllPolling() *)
stopAllPolling ==
    /\ poller' = [poller EXCEPT !.activePolls = {}]
    /\ returned' = Returns(<<"stopAllPolling">>)
    /\ UNCHANGED <<store, authStorage, requests, chatVars, app, serverVars>>

NextPoller ==
    \/ \E taskId \in ClientTasks : pollTask(taskId)
    \/ \E l \in 1..MaxPolls, taskState \in PollResponses, throwing \in SUBSET Callbacks :
            poll_getTask(l, taskState, throwing)
    \/ \E l \in 1..MaxPolls : poll_setTimeout(l)
    \/ \E taskId \in ClientTasks : stopPolling(taskId)
    \/ stopAllPolling

SpecPoller == InitApp /\ [][NextPoller]_vars

----------------------------------------------------------------------------
(* Properties *)

\* The edges of the task state machine.
ListedEdges ==
    {<<"submitted", "working">>, <<"working", "completed">>, <<"working", "failed">>,
     <<"working", "input-required">>, <<"input-required", "working">>,
     <<"submitted", "suspended">>, <<"working", "suspended">>,
     <<"input-required", "suspended">>, <<"suspended", "resumed">>,
     <<"resumed", "working">>}
    \cup {<<s, "canceled">> : s \in TaskStates \ TerminalStates}

\* The state a request asks the task to move to.
RequestTarget(op) ==
    CASE op \in {"run", "stream"} -> "working"
      [] op = "pause" -> "suspended"
      [] op = "resume" -> "resumed"
      [] op = "cancel" -> "canceled"

Requests == {"run", "stream", "pause", "resume", "cancel"}

Started(c) == caller[c].pc = "idle" /\ caller'[c] # caller[c]

\* Caller c's call on the breaker of key k ends in this step with result r.
Ended(c, k, r) ==
    /\ caller[c].pc = "retrying"
    /\ OperationKey(caller[c].op) = k
    /\ caller'[c].pc = "idle"
    /\ caller'[c].result = r

\* The breaker of key k is OPEN and recovery_timeout has not elapsed.
StillOpen(k) ==
    /\ k \in DOMAIN registry
    /\ registry[k].state = "OPEN"
    /\ now - registry[k].opened_at < settings.recovery_timeout

\* C3: a CLOSED breaker counts consecutive failures: a failure below the
\* threshold adds one and leaves it CLOSED, the failure that reaches
\* failure_threshold opens it and sets opened_at to the clock, a success sets
\* the count to zero, and nothing else opens it.
C3_ClosedToOpen ==
    [][\A k \in DOMAIN registry :
        LET b == registry[k]
            b2 == registry'[k]
        IN  b.state = "CLOSED" =>
              /\ b.failure_count < settings.failure_threshold
              /\ (\E c \in Callers : Ended(c, k, "error")) =>
                    IF b.failure_count + 1 >= settings.failure_threshold
                    THEN b2.state = "OPEN" /\ b2.opened_at = now
                    ELSE b2.state = "CLOSED" /\ b2.failure_count = b.failure_count + 1
              /\ (\E c \in Callers : Ended(c, k, "ok")) =>
                    b2.state = "CLOSED" /\ b2.failure_count = 0
              /\ b2.state # "CLOSED" =>
                    b2.state = "OPEN" /\ \E c \in Callers : Ended(c, k, "error")]_vars

C3_Witness ==
    \E k \in DOMAIN registry :
        /\ settings.failure_threshold = 2
        /\ registry[k].state = "OPEN"
        /\ registry[k].failure_count = 2
        /\ registry[k].opened_at = now
        /\ now > 0

\* C4: a call that starts while the breaker is OPEN and recovery_timeout has
\* not elapsed gets CircuitOpen with retry_after > 0; func is not invoked and
\* the breaker is left as it is.
C4_OpenRejects ==
    [][\A c \in Callers :
        (Started(c) /\ StillOpen(OperationKey(caller'[c].op))) =>
            /\ caller'[c].pc = "idle"
            /\ caller'[c].result = "CircuitOpen"
            /\ caller'[c].retry_after > 0
            /\ caller'[c].seen = <<>>
            /\ registry' = registry]_vars

C4_Witness ==
    \E c \in Callers :
        /\ caller[c].result = "CircuitOpen"
        /\ caller[c].retry_after > 0
        /\ StillOpen(OperationKey(caller[c].op))

\* The callers whose call was let through by a HALF_OPEN breaker and is running.
Probes == {c \in Callers : caller[c].pc = "retrying" /\ caller[c].admitted_in = "HALF_OPEN"}

\* C5: after recovery_timeout the breaker lets exactly one caller through as the
\* HALF_OPEN probe, however many callers arrive.
C5_SingleProbe == Cardinality(Probes) <= 1

\* C6: a success recorded in HALF_OPEN adds one to success_count; the success
\* that reaches success_threshold closes the breaker with failure_count and
\* success_count zero.
C6_HalfOpenSuccess ==
    [][\A k \in DOMAIN registry :
        LET b == registry[k]
            b2 == registry'[k]
        IN  (b.state = "HALF_OPEN" /\ \E c \in Callers : Ended(c, k, "ok")) =>
                IF b.success_count + 1 >= settings.success_threshold
                THEN b2.state = "CLOSED" /\ b2.failure_count = 0 /\ b2.success_count = 0
                ELSE b2.state = "HALF_OPEN" /\ b2.success_count = b.success_count + 1]_vars

C6_Witness ==
    \E k \in DOMAIN registry :
        /\ settings.success_threshold = 2
        /\ registry[k].state = "CLOSED"
        /\ registry[k].opened_at > 0
        /\ \E c \in Callers : caller[c].result = "ok" /\ caller[c].admitted_in = "HALF_OPEN"

\* C7: a failure recorded in HALF_OPEN opens the breaker at once, with opened_at
\* set to the clock, and a call that starts before recovery_timeout has elapsed
\* from then is refused.
C7_HalfOpenFailure ==
    [][/\ \A k \in DOMAIN registry :
            (registry[k].state = "HALF_OPEN" /\ \E c \in Callers : Ended(c, k, "error")) =>
                registry'[k].state = "OPEN" /\ registry'[k].opened_at = now
       /\ \A c \in Callers :
            (Started(c) /\ StillOpen(OperationKey(caller'[c].op))) =>
                caller'[c].result = "CircuitOpen" /\ caller'[c].pc = "idle"]_vars

C7_Witness ==
    \E k \in DOMAIN registry, c \in Callers :
        /\ settings.failure_threshold = 2
        /\ settings.success_threshold = 2
        /\ registry[k].state = "OPEN"
        /\ registry[k].failure_count = 3
        /\ caller[c].result = "error"
        /\ caller[c].admitted_in = "HALF_OPEN"
        /\ OperationKey(caller[c].op) = k

\* C8: with the breaker enabled, a failed attempt that is retried leaves the
\* breaker untouched; a call ending in success while CLOSED leaves it CLOSED with
\* no failure counted; a call ending in error has used all max_attempts attempts
\* and adds exactly one to failure_count; and no call enters the retry loop with
\* the breaker OPEN.
C8_BreakerWrapsRetryLoop ==
    [][settings.enabled =>
        \A c \in Callers :
            LET k == OperationKey(caller[c].op)
            IN  /\ (caller[c].pc = "retrying" /\ caller'[c].pc = "retrying"
                        /\ caller'[c] # caller[c]) =>
                        registry' = registry
                /\ (Ended(c, k, "ok") /\ registry[k].state = "CLOSED") =>
                        registry'[k].state = "CLOSED" /\ registry'[k].failure_count = 0
                /\ Ended(c, k, "error") =>
                        /\ Len(caller'[c].seen) = MaxAttempts
                        /\ registry'[k].failure_count = registry[k].failure_count + 1
                /\ (Started(c) /\ caller'[c].pc = "retrying") =>
                        registry'[OperationKey(caller'[c].op)].state # "OPEN"]_vars

C8_Witness ==
    \E c \in Callers :
        /\ settings.enabled
        /\ caller[c].result = "error"
        /\ Len(caller[c].seen) = MaxAttempts
        /\ registry[OperationKey(caller[c].op)].state = "CLOSED"
        /\ registry[OperationKey(caller[c].op)].failure_count = 1

\* C9: with the breaker disabled, a call returns what the bare retry loop
\* returns for the same outcomes of func, never CircuitOpen, and the registry
\* stays empty.
C9_DisabledIsBareRetry ==
    ~settings.enabled =>
        /\ registry = <<>>
        /\ \A c \in Callers :
            /\ caller[c].result # "CircuitOpen"
            /\ caller[c].pc = "retrying" => RetryLoop(caller[c].seen, 1) = "pending"
            /\ (caller[c].pc = "idle" /\ caller[c].result # "none") =>
                    caller[c].result = RetryLoop(caller[c].seen, 1)

C9_Witness ==
    \E c \in Callers :
        /\ ~settings.enabled
        /\ caller[c].pc = "idle"
        /\ caller[c].result = "ok"
        /\ caller[c].seen = <<"fail", "fail", "ok">>

\* The breaker registered for operation op, or none.
BreakerOf(reg, op) ==
    IF OperationKey(op) \in DOMAIN reg THEN <<reg[OperationKey(op)]>> ELSE <<>>

\* C10: a step of a call on one operation leaves the breaker of every other
\* operation as it is.
C10_PerOperationIsolation ==
    [][\A c \in Callers :
        caller'[c] # caller[c] =>
            \A op \in Operations \ {caller'[c].op} :
                BreakerOf(registry', op) = BreakerOf(registry, op)]_vars

C10_Witness ==
    /\ BreakerOf(registry, <<"storage", "save_task">>) # <<>>
    /\ BreakerOf(registry, <<"api", "call_agent">>) # <<>>
    /\ registry[OperationKey(<<"storage", "save_task">>)].state = "OPEN"
    /\ registry[OperationKey(<<"api", "call_agent">>)].state = "CLOSED"
    /\ registry[OperationKey(<<"api", "call_agent">>)].failure_count = 0
    /\ caller["c1"].op = <<"api", "call_agent">>
    /\ caller["c1"].result = "ok"

\* C11: a pause request on a task in submitted, working or input-required is
\* answered ok and suspends the task; on a task in any other state it is
\* answered TaskNotPausable and the task's record (state, metadata and the
\* rest) stays as it was.
C11_PauseOnlyWhenPausable ==
    [][\A t \in DOMAIN storage :
        (response'.op = "pause" /\ response'.task = t) =>
            IF storage[t].state \in {"submitted", "working", "input-required"}
            THEN response'.result = "ok" /\ storage'[t].state = "suspended"
            ELSE response'.result = "TaskNotPausable" /\ storage'[t] = storage[t]]_vars

C11_Witness ==
    \E t \in DOMAIN storage :
        /\ storage[t].state = "suspended"
        /\ storage[t].checkpoint.paused_from_state = "working"
        /\ response = Respond("pause", t, "TaskNotPausable")

C13_ResumeOnlyWhenSuspended ==
    [][\A t \in DOMAIN storage :
        (response'.op = "resume" /\ response'.task = t) =>
            IF storage[t].state = "suspended"
            THEN response'.result = "ok" /\ storage'[t].state = "resumed"
            ELSE response'.result = "TaskNotResumable" /\ storage'[t] = storage[t]]_vars

C13_Witness ==
    \E t \in DOMAIN storage :
        /\ storage[t].state = "resumed"
        /\ resuming[t]
        /\ response = Respond("resume", t, "TaskNotResumable")

RunArtifacts(input) ==
    IF handler[input].kind = "final" THEN <<sign(handler[input].text)>> ELSE <<>>

C19_SettlementOnceAfterSuccess ==
    /\ [](\A t \in Tasks : collab.settle[t] <= 1)
    /\ [][\A t \in DOMAIN storage :
            /\ collab'.settle[t] # collab.settle[t] =>
                    \E inv \in BagToSet(inflight[t]) :
                        /\ inv.phase = "computing"
                        /\ handler[inv.input].kind = "final"
                        /\ inflight'[t] = (inflight[t] (-) SetToBag({inv}))
                                            (+) SetToBag({Settling(inv)})
            /\ \A inv \in BagToSet(inflight[t]) :
                    (/\ inv.phase = "settling"
                     /\ storage[t].state = "working"
                     /\ inflight'[t] = inflight[t] (-) SetToBag({inv})) =>
                        /\ storage'[t].state = "completed"
                        /\ storage'[t].error = "none"]_vars

\* C20 (as stated): the signing collaborator has been invoked exactly once
\* for a completed task, whether run or stream completed it, and not at all
\* for a failed or input-required task; a step that streams a chunk does not
\* invoke it.
C20_SignedExactlyOnce ==
    /\ [](\A t \in DOMAIN storage :
            /\ storage[t].state = "completed" => collab.sign[t] = 1
            /\ storage[t].state \in {"failed", "input-required"} => collab.sign[t] = 0)
    /\ [][\A t \in Tasks :
            collab'.chunks[t] # collab.chunks[t] => collab'.sign[t] = collab.sign[t]]_vars


IsChunkEvent(e) == e.kind = "artifact-update" /\ e.append /\ ~e.last_chunk

IsLastChunkEvent(e) == e.kind = "artifact-update" /\ e.append /\ e.last_chunk

IsFinalStatus(e, states) == e.kind = "status-update" /\ e.final /\ e.state \in states

\* The events of a stream up to its last chunk: the working status event, then
\* chunks artifact events that share the artifact id of the first of them.
StartsWithChunks(events, chunks) ==
    /\ Len(events) >= chunks + 1
    /\ events[1] = StatusEvent("working", FALSE)
    /\ \A i \in 2..(chunks + 1) :
            IsChunkEvent(events[i]) /\ events[i].artifact_id = events[2].artifact_id

LastChunkEvents(events) == {i \in 1..Len(events) : IsLastChunkEvent(events[i])}

\* C22 (as stated): once the output of a stream is exhausted, its one
\* last_chunk=true event carries the final signed content of the whole
\* response, under the artifact id of the chunk events.
C22_LastChunkCarriesSigned ==
    \A t \in Tasks : \A inv \in BagToSet(inflight[t]) :
        (inv.mode = "stream" /\ inv.phase = "settling") =>
            LET n == Len(inv.events)
            IN  /\ LastChunkEvents(inv.events) = {n}
                /\ inv.events[n].part.text = handler[inv.input].text
                /\ inv.events[n].part.signature = sign(handler[inv.input].text).signature
                /\ n > 2 => inv.events[n].artifact_id = inv.events[2].artifact_id

\* C22 (amended): a stream sends no last_chunk=true event while its
\* computation is yielding; once the output is exhausted it has sent exactly
\* one, the last of its events, an empty marker (empty text) under the
\* artifact id of the chunk events; and the final signed content of the whole
\* response is what the stream then persists as the task's artifact.
C22_LastChunkIsEmptyMarker ==
    /\ [](\A t \in Tasks : \A inv \in BagToSet(inflight[t]) :
            inv.mode = "stream" =>
                LET n == Len(inv.events)
                IN  IF inv.phase = "computing"
                    THEN LastChunkEvents(inv.events) = {}
                    ELSE /\ LastChunkEvents(inv.events) = {n}
                         /\ inv.events[n].part = Part("", 0, <<>>)
                         /\ inv.events[n].artifact_id = artifact_id(inv.input, n)
                         /\ n > 2 => inv.events[n].artifact_id = inv.events[2].artifact_id)
    /\ [](\A i \in LastChunkEvents(delivered) :
            /\ delivered[i].part = Part("", 0, <<>>)
            /\ LastChunkEvents(delivered) = {i}
            /\ i > 2 => delivered[i].artifact_id = delivered[2].artifact_id)
    /\ [][\A t \in DOMAIN storage : \A inv \in BagToSet(inflight[t]) :
            (/\ inv.mode = "stream"
             /\ inv.phase = "settling"
             /\ storage[t].state = "working"
             /\ storage'[t].state = "completed"
             /\ inflight'[t] = inflight[t] (-) SetToBag({inv})) =>
                /\ storage'[t].artifacts = <<sign(handler[inv.input].text)>>
                /\ \A i \in 1..Len(delivered') :
                        delivered'[i].kind = "artifact-update" =>
                            delivered'[i].part.signature = <<>>]_vars

\* A stream on "four": one chunk, the empty marker, completed; the signed
\* "IV" is the task's artifact.
C22_Witness ==
    \E t \in DOMAIN storage :
        /\ Len(delivered) = 4
        /\ IsChunkEvent(delivered[2])
        /\ delivered[3] = ArtifactEvent(delivered[2].artifact_id, Part("", 0, <<>>), TRUE)
        /\ delivered[4] = StatusEvent("completed", TRUE)
        /\ storage[t].artifacts = <<sign(final_text("four"))>>

C24_FailedEventDelivered ==
    [][\A t \in DOMAIN storage : \A inv \in BagToSet(inflight[t]) :
        inv.mode = "stream" =>
            /\ \A persisted \in BOOLEAN :
                    stream_error(t, inv, persisted) =>
                        /\ delivered' = Append(inv.events, StatusEvent("failed", TRUE))
                        /\ ~persisted => storage' = storage
                        /\ (persisted /\ storage[t].state = "working") =>
                                storage'[t].state = "failed"
            /\ \A call \in CallResults :
                    (/\ storage[t].state = "working"
                     /\ classify(call, handler[inv.input]) = "error"
                     /\ finish_task(t, inv, call)) =>
                        /\ delivered' = Append(inv.events, StatusEvent("failed", TRUE))
                        /\ storage'[t].state = "failed"]_vars

\* A stream failed after its first chunk and the write of failed failed too:
\* the client has the failed event, the record still says working.
C24_Witness ==
    \E t \in DOMAIN storage :
        /\ Len(delivered) = 3
        /\ IsChunkEvent(delivered[2])
        /\ delivered[3] = StatusEvent("failed", TRUE)
        /\ storage[t].state = "working"
        /\ inflight[t] = EmptyBag

\* The record a run of input leaves of a working task, given what its call came
\* back with: the outcome as state, the agent's message added to the history
\* unless the run failed, the signed final text as the one artifact.
RunRecord(task, input, call) ==
    LET result == handler[input]
        outcome == classify(call, result)
    IN  [state |-> IF outcome = "final" THEN "completed"
                   ELSE IF outcome = "error" THEN "failed" ELSE "input-required",
         history |-> IF outcome = "error" THEN task.history
                     ELSE Append(task.history, Message("agent", result.text)),
         artifacts |-> IF outcome = "final" THEN <<sign(result.text)>> ELSE <<>>,
         checkpoint |-> NoCheckpoint,
         error |-> IF outcome = "error" THEN error_of(call) ELSE "none"]

C26_NoTaskStaysWorking ==
    \A t \in Tasks :
        (t \in DOMAIN storage /\ storage[t].state \in {"working", "resumed"}) ~>
            (t \in DOMAIN storage /\ storage[t].state \in
                {"completed", "failed", "canceled", "rejected", "suspended",
                 "input-required"})

C28_CanceledIsNotOverwritten ==
    [][\A t \in DOMAIN storage :
        storage[t].state = "canceled" =>
            /\ storage'[t] \in {storage[t], clear_checkpoint(storage[t])}
            /\ storage'[t] # storage[t] =>
                    resuming[t] /\ ~resuming'[t] /\ inflight' = inflight
            /\ \A inv \in BagToSet(inflight[t]) :
                    inflight'[t] = inflight[t] (-) SetToBag({inv}) =>
                        /\ storage' = storage
                        /\ collab' = collab
                        /\ (\A persisted \in BOOLEAN : ~stream_error(t, inv, persisted)) =>
                                response' = NoResponse /\ delivered' = inv.events]_vars

\* A task canceled while the settlement call of its run was in flight: the
\* invocation has ended, the final text was signed, the task is canceled and
\* has no artifact.
C28_Witness ==
    \E t \in DOMAIN storage :
        /\ storage[t].state = "canceled"
        /\ storage[t].artifacts = <<>>
        /\ storage[t].checkpoint = NoCheckpoint
        /\ collab.settle[t] = 1
        /\ inflight[t] = EmptyBag
        /\ response = NoResponse

\* C29: with several calls running at once on one breaker, every call that
\* ends in error adds exactly one to failure_count, and nothing else raises
\* it; the breaker leaves CLOSED for OPEN in the step of the failure that
\* brings the count to failure_threshold, with opened_at set to the clock,
\* and in no other step; and the failure of a call that was let through
\* while CLOSED and ends when the breaker is already OPEN is counted without
\* a second transition: state and opened_at stay.
C29_ConcurrentFailuresCounted ==
    [][\A k \in DOMAIN registry :
        LET b == registry[k]
            b2 == registry'[k]
            failed == \E c \in Callers : Ended(c, k, "error")
        IN  /\ failed => b2.failure_count = b.failure_count + 1
            /\ b2.failure_count > b.failure_count => failed
            /\ (b.state = "CLOSED" /\ failed) =>
                    (b2.state = "OPEN" <=> b2.failure_count = settings.failure_threshold)
            /\ (b.state = "CLOSED" /\ b2.state = "OPEN") =>
                    /\ failed
                    /\ b2.failure_count = settings.failure_threshold
                    /\ b2.opened_at = now
            /\ (b.state = "OPEN" /\ failed) =>
                    b2.state = "OPEN" /\ b2.opened_at = b.opened_at]_vars

\* Two calls let through while CLOSED, failure_threshold 1: the first failure
\* opened the breaker, the second, a tick later, was counted and left it as
\* opened.
C29_Witness ==
    \E k \in DOMAIN registry :
        /\ settings.failure_threshold = 1
        /\ \A c \in Callers :
                /\ caller[c].pc = "idle"
                /\ caller[c].result = "error"
                /\ caller[c].admitted_in = "CLOSED"
                /\ OperationKey(caller[c].op) = k
        /\ registry[k].state = "OPEN"
        /\ registry[k].failure_count = 2
        /\ registry[k].opened_at < now

\* C30 (as stated): in the state after a step in which a breaker has entered
\* OPEN, HALF_OPEN or CLOSED, its failure_count and success_count are zero.
C30_CountersZeroOnEntry ==
    [][\A k \in DOMAIN registry :
        registry'[k].state # registry[k].state =>
            registry'[k].failure_count = 0 /\ registry'[k].success_count = 0]_vars

\* C30 (amended): in the state after a step in which a breaker has entered a
\* state, its success_count is zero; its failure_count is zero on entering
\* CLOSED, and on entering OPEN or HALF_OPEN it is the count of the failures
\* so far, at least failure_threshold: on entering OPEN the count before plus
\* the failure that opened it, on entering HALF_OPEN the count before.  A new
\* breaker is CLOSED with both counters zero.
C30_CountersOnEntry ==
    [][/\ \A k \in DOMAIN registry :
            LET b == registry[k]
                b2 == registry'[k]
            IN  b2.state # b.state =>
                    /\ b2.success_count = 0
                    /\ b2.state = "CLOSED" => b2.failure_count = 0
                    /\ b2.state = "OPEN" =>
                            /\ b2.failure_count = b.failure_count + 1
                            /\ b2.failure_count >= settings.failure_threshold
                    /\ b2.state = "HALF_OPEN" =>
                            /\ b2.failure_count = b.failure_count
                            /\ b2.failure_count >= settings.failure_threshold
       /\ \A k \in DOMAIN registry' \ DOMAIN registry :
            registry'[k].state = "CLOSED" => registry'[k] = NewCircuitBreaker]_vars

\* A breaker with failure_threshold 2 that has just moved from OPEN to
\* HALF_OPEN, its two failures still counted.
C30_Witness ==
    \E k \in DOMAIN registry, c \in Callers :
        /\ settings.failure_threshold = 2
        /\ registry[k].state = "HALF_OPEN"
        /\ registry[k].failure_count = 2
        /\ registry[k].success_count = 0
        /\ caller[c].pc = "retrying"
        /\ caller[c].admitted_in = "HALF_OPEN"
        /\ caller[c].seen = <<>>

IsCleanToken(token) == token = Null \/ (IsAscii(token) /\ trim(token) = token)

\* C34: the auth token in the store is always null or a trimmed ASCII-only
\* string; setAuthToken with a token that, trimmed, holds a non-ASCII
\* character throws and changes neither the store nor the persisted token;
\* and initializeAuth puts a persisted token into the store only if
\* validateToken accepts it.
C34_StoreHoldsCleanToken ==
    /\ [](IsCleanToken(store.authToken))
    /\ [][\A token \in Tokens :
            (setAuthToken(token) /\ token # Null /\ ~IsAscii(trim(token))) =>
                /\ returned'.kind = "throw"
                /\ store' = store /\ authStorage' = authStorage]_vars
    /\ [][(initializeAuth /\ store'.authToken # Null) =>
                store'.authToken = authStorage /\ validateToken(authStorage)]_vars

\* C35: every createTask request made while the store holds a current task
\* and its state carries, if that state is terminal, referenceTaskIds =
\* [currentTaskId] and no taskId, and otherwise taskId = currentTaskId and no
\* referenceTaskIds; no request carries both.
C35_NoMessageUnderTerminalTask ==
    [][\A input \in Inputs \cup MoreInputs :
        createTask(input) =>
            LET payload == requests'[Len(requests')]
                current == store.currentTaskId # "null" /\ store.currentTaskState # NoTaskState
                terminal == store.currentTaskState.status \in TerminalStates
            IN  /\ (current /\ terminal) =>
                        /\ payload.referenceTaskIds = <<store.currentTaskId>>
                        /\ payload.taskId = "undefined"
                /\ (current /\ ~terminal) =>
                        /\ payload.taskId = store.currentTaskId
                        /\ payload.referenceTaskIds = <<>>
                /\ ~(payload.taskId # "undefined" /\ payload.referenceTaskIds # <<>>)]_vars

\* C32: while a message is being sent, a createTask request goes out only in
\* the step in which handlePaymentFlow returns success; and in the step in
\* which handlePaymentFlow throws, the error is set, no request goes out and
\* the call of sendMessage ends, so that the next createTask request is that
\* of another call of sendMessage.
C32_ResendOnlyAfterPayment ==
    [][flow.fn = "sendMessage" /\ flow.pc # "idle" =>
        /\ Len(requests') > Len(requests) =>
                /\ flow.pc \in {"startPaymentSession", "getPaymentStatus"}
                /\ returned'.kind = "return"
                /\ requests'[Len(requests')].input = flow.text
        /\ returned'.kind = "throw" =>
                /\ store'.error = "Payment failed"
                /\ requests' = requests
                /\ flow'.pc = "idle"]_vars

\* A message was sent again, with the payment token, after its payment flow
\* returned success; the second response asked for payment again and this
\* time the payment flow has thrown: the error is set, the call has ended and
\* no third request was sent.
C32_Witness ==
    /\ returned.kind = "throw"
    /\ flow.fn = "sendMessage" /\ flow.pc = "idle"
    /\ store.error = "Payment failed"
    /\ Len(requests) = 2
    /\ requests[1].paymentToken = Null
    /\ requests[2].paymentToken = <<"a">>
    /\ requests[2].input = requests[1].input

\* C36: a status poll that reports 'failed' ends the polling: handlePaymentFlow
\* rejects with the reported error in that step.
C36_FailedStopsPolling ==
    [][handlePaymentFlow_poll("failed") =>
            /\ flow'.pc # "getPaymentStatus"
            /\ returned' = Throws(poll_error("failed"))]_vars

\* C33: while handleMessageSend is sending a message, a createTask request
\* goes out only in the step in which the payment flow returns success; in the
\* step in which the payment flow throws no request goes out and the call
\* ends.
C33_ResendOnlyAfterPaidFor ==
    [][flow.fn = "handleMessageSend" /\ flow.pc # "idle" =>
        /\ Len(requests') > Len(requests) =>
                /\ flow.pc \in {"startPaymentSession", "getPaymentStatus"}
                /\ returned'.kind = "return"
        /\ returned'.kind = "throw" =>
                /\ requests' = requests
                /\ flow'.pc = "idle"]_vars

\* The messages of one kind that poll n has added to the chat.
Added(n, kinds) == {i \in 1..Len(chatArea) : chatArea[i].poll = n /\ chatArea[i].kind \in kinds}

\* C39: no poll makes more than the maximum of tasks/get requests, and a poll
\* that has added the timeout message has its interval cleared and has added
\* the message once.
C39_PollStops ==
    \A n \in 1..Len(app.timers) :
        /\ app.timers[n].attempts <= PollMaxAttempts
        /\ Added(n, {"timeout"}) # {} =>
                /\ app.timers[n].cleared
                /\ Cardinality(Added(n, {"timeout"})) = 1

\* C40: one poll adds the agent's response, or the failed or canceled status
\* message, to the chat at most once.
C40_ResponseAddedOnce ==
    \A n \in 1..Len(app.timers) :
        Cardinality(Added(n, {"response", "failed", "canceled"})) <= 1

\* C37: every poll makes at most the maximum of getTask requests and calls
\* onComplete and onError at most once between them, exactly once when it
\* has ended; the step that calls onComplete is one in which the task is seen
\* completed, failed, canceled or input-required, and the step that calls
\* onError one in which the request failed or the attempts are used up.
C37_OneCallbackOnce ==
    /\ [](\A l \in 1..Len(poller.loops) :
            LET loop == poller.loops[l]
                ended == loop.calls["onComplete"] + loop.calls["onError"]
            IN  /\ loop.attempts <= PollMaxAttempts
                /\ ended <= 1
                /\ loop.pc = "done" <=> ended = 1)
    /\ [][\A l \in 1..Len(poller.loops) :
            LET loop == poller.loops[l]
                after == poller'.loops[l]
            IN  /\ after.calls["onComplete"] > loop.calls["onComplete"] =>
                        after.seen \in {"completed", "failed", "canceled", "input-required"}
                /\ after.calls["onError"] > loop.calls["onError"] =>
                        after.seen = "error" \/ after.attempts >= PollMaxAttempts]_vars

\* The polls of a task that have not ended.
Running(taskId) ==
    {l \in 1..Len(poller.loops) :
        poller.loops[l].taskId = taskId /\ poller.loops[l].pc # "done"}

\* C38: a poll whose task is not among the active polls, as after
\* stopPolling, makes no further getTask request and calls no callback; and
\* at most one poll per task id is running.
C38_StoppedPollIsSilent ==
    /\ [](\A taskId \in ClientTasks : Cardinality(Running(taskId)) <= 1)
    /\ [][\A l \in 1..Len(poller.loops) :
            poller.loops[l].taskId \notin poller.activePolls =>
                /\ poller'.loops[l].attempts = poller.loops[l].attempts
                /\ poller'.loops[l].calls = poller.loops[l].calls]_vars

====
